---------------------------- MODULE Spec2Model ----------------------------
(***************************************************************************)
(* A model of the Fog-Unveiled ETL core: the Oryx equipment-loss parser    *)
(* chain (page -> category -> model -> entry -> case), its correction      *)
(* stages (set_attachments, autoid), the rulebook validation filter, and   *)
(* the Yale company-operations parser.                                     *)
(*                                                                         *)
(* Python strings are TLA+ strings handled character by character (Len,    *)
(* SubSeq, \o), so the regular expressions and the split/strip functions   *)
(* are computed, not assumed.  Python's None is the option value None      *)
(* (NoneT for an absent tuple); a present value v is Some(v).              *)
(***************************************************************************)
EXTENDS Naturals, Integers, Sequences, FiniteSets, TLC

(***************************************************************************)
(* Option values.                                                          *)
(***************************************************************************)
None == [none |-> TRUE, v |-> ""]
NoneT == [none |-> TRUE, v |-> <<>>]
Some(v) == [none |-> FALSE, v |-> v]

(***************************************************************************)
(* Characters and str methods.                                             *)
(***************************************************************************)
\* s[i], and "" outside the string
Char(s, i) == IF i \in 1..Len(s) THEN SubSeq(s, i, i) ELSE ""

\* s[m-1:n], cut to the string as a Python slice is
Slice(s, m, n) == IF n > Len(s) THEN SubSeq(s, m, Len(s)) ELSE SubSeq(s, m, n)

Suffix(s, i) == SubSeq(s, i, Len(s))

CharsOf(s) == { Char(s, i) : i \in 1..Len(s) }

Whitespace == {" ", "\n", "\t"}

Digits == "0123456789"

UpperCase == "ABCDEFGHIJKLMNOPQRSTUVWXYZ"

LowerCase == "abcdefghijklmnopqrstuvwxyz"

DigitChars == CharsOf(Digits)

UpperChars == CharsOf(UpperCase)

LowerChars == CharsOf(LowerCase)

\* \w of the re module, on the characters of the model
WordChars == DigitChars \cup UpperChars \cup LowerChars \cup {"_"}

IsSpace(c) == c \in Whitespace

IsDigit(c) == c \in DigitChars

Min(S) == CHOOSE m \in S : \A n \in S : m <= n

Max(S) == CHOOSE m \in S : \A n \in S : n <= m

\* the positions at which sub occurs in s
Occurrences(s, sub) == { i \in 1..(Len(s) + 1) : i + Len(sub) - 1 <= Len(s) /\ SubSeq(s, i, i + Len(sub) - 1) = sub }

\* sub in s
Contains(s, sub) == Occurrences(s, sub) # {}

\* s.startswith(p)
StartsWith(s, p) == Len(p) <= Len(s) /\ SubSeq(s, 1, Len(p)) = p

\* s.removeprefix(p)
RemovePrefix(s, p) == IF StartsWith(s, p) THEN Suffix(s, Len(p) + 1) ELSE s

\* s.strip(chars), chars a set of characters
StripChars(s, chars) ==
    LET keep == { i \in 1..Len(s) : Char(s, i) \notin chars }
    IN  IF keep = {} THEN "" ELSE SubSeq(s, Min(keep), Max(keep))

\* s.strip()
Strip(s) == StripChars(s, Whitespace)

\* s.split(d), d not empty
RECURSIVE Split(_, _)
Split(s, d) ==
    LET occ == Occurrences(s, d)
    IN  IF occ = {} THEN <<s>>
        ELSE LET i == Min(occ)
             IN  <<SubSeq(s, 1, i - 1)>> \o Split(Suffix(s, i + Len(d)), d)

\* s.split(d, 1)
SplitOnce(s, d) ==
    LET occ == Occurrences(s, d)
    IN  IF occ = {} THEN <<s>>
        ELSE <<SubSeq(s, 1, Min(occ) - 1), Suffix(s, Min(occ) + Len(d))>>

\* characters for which str.isnumeric() holds and that int() rejects
\* (superscripts, fractions, ...): the model's alphabet holds one of them
NumericNotDecimal == {"²"}

\* s.isnumeric(), on the characters of the model
IsNumeric(s) ==
    Len(s) > 0 /\ \A i \in 1..Len(s) : IsDigit(Char(s, i)) \/ Char(s, i) \in NumericNotDecimal

\* whether int(s) returns, for a numeric s: it raises ValueError otherwise
IsDecimal(s) == Len(s) > 0 /\ \A i \in 1..Len(s) : IsDigit(Char(s, i))

DigitValue(c) == Min(Occurrences(Digits, c)) - 1

\* int(s) of a string of decimal digits
RECURSIVE IntOf(_)
IntOf(s) ==
    IF Len(s) = 0 THEN 0
    ELSE 10 * IntOf(SubSeq(s, 1, Len(s) - 1)) + DigitValue(Char(s, Len(s)))

LowerChar(c) ==
    IF c \in UpperChars THEN Char(LowerCase, Min(Occurrences(UpperCase, c))) ELSE c

\* s.lower()
RECURSIVE Lower(_)
Lower(s) == IF Len(s) = 0 THEN "" ELSE LowerChar(Char(s, 1)) \o Lower(Suffix(s, 2))

\* s.islower(): a cased character, and no uppercase one
IsLower(s) ==
    /\ \E i \in 1..Len(s) : Char(s, i) \in LowerChars
    /\ \A i \in 1..Len(s) : Char(s, i) \notin UpperChars

\* s.replace(a, b), a one character
RECURSIVE Replace(_, _, _)
Replace(s, a, b) ==
    IF Len(s) = 0 THEN ""
    ELSE (IF Char(s, 1) = a THEN b ELSE Char(s, 1)) \o Replace(Suffix(s, 2), a, b)

\* the items of a list, each stripped
StripAll(items) == [ i \in 1..Len(items) |-> Strip(items[i]) ]

(***************************************************************************)
(* utils.py: series_splitter and multisplit.                               *)
(***************************************************************************)
CONJUNCTIONS == <<"and", "nor", "but", "or">>

\* a loop that goes on to the next conjunctions after one has applied
RECURSIVE series_conjunction_every(_, _)
series_conjunction_every(items, k) ==
    IF k > Len(CONJUNCTIONS) THEN items
    ELSE LET conjunction == CONJUNCTIONS[k]
             last == items[Len(items)]
             front == SubSeq(items, 1, Len(items) - 1)
         IN  IF StartsWith(last, conjunction \o " ")
             THEN series_conjunction_every(
                      front \o <<RemovePrefix(last, conjunction \o " ")>>, k + 1)
             ELSE IF Contains(last, " " \o conjunction \o " ")
             THEN series_conjunction_every(
                      front \o StripAll(Split(last, " " \o conjunction \o " ")), k + 1)
             ELSE series_conjunction_every(items, k + 1)

\* the loop over the conjunctions, from the k-th one on
RECURSIVE series_conjunction(_, _)
series_conjunction(items, k) ==
    IF k > Len(CONJUNCTIONS) THEN items
    ELSE LET conjunction == CONJUNCTIONS[k]
             last == items[Len(items)]
             front == SubSeq(items, 1, Len(items) - 1)
         IN  IF StartsWith(last, conjunction \o " ")
             THEN front \o <<RemovePrefix(last, conjunction \o " ")>>
             ELSE IF Contains(last, " " \o conjunction \o " ")
             THEN front \o StripAll(Split(last, " " \o conjunction \o " "))
             ELSE series_conjunction(items, k + 1)

\* a splitter that knows the delimiter only
series_splitter_commas(text) == StripAll(Split(text, ", "))

series_splitter(text) == series_conjunction(StripAll(Split(text, ", ")), 1)

\* a loop that splits on the first delimiter only
multisplit_first(pieces, delimiters) == StripAll(pieces)

RECURSIVE multisplit(_, _)
RECURSIVE multisplit_items(_, _)
\* the loop of multisplit over the pieces of text.split(delimiter)
multisplit_items(pieces, delimiters) ==
    IF Len(pieces) = 0 THEN <<>>
    ELSE (IF Len(delimiters) > 1
          THEN multisplit(pieces[1], Tail(delimiters))
          ELSE <<Strip(pieces[1])>>)
         \o multisplit_items(Tail(pieces), delimiters)

multisplit(text, delimiters) == multisplit_items(Split(text, delimiters[1]), delimiters)

(***************************************************************************)
(* case.py and case_parser.py: one <a> tag is [href, text], href an option *)
(* (attrs.get('href')), text the tag's text.                               *)
(***************************************************************************)
Case(_id, statuses, url, cause) ==
    [model_case_id |-> _id, asset_status |-> statuses, confirmation_url |-> url,
     cause |-> cause, asset_category |-> None, model |-> None,
     country_of_loss |-> None, country_of_production |-> None, attachment |-> None]

\* CaseParser.text
text_of(tag) == StripChars(tag.text, {"(", ")"})

\* re.compile(r"^with (.+?),", DOTALL).match(text): group 1, or None
with_cause_rgx(text) ==
    LET commas == { p \in Occurrences(text, ",") : p >= 7 }
    IN  IF StartsWith(text, "with ") /\ commas # {}
        THEN Some(SubSeq(text, 6, Min(commas) - 1))
        ELSE None

\* a pattern that takes the first "by " of the text
by_cause_first(text) ==
    LET marks == { i \in Occurrences(text, "by ") : i + 3 <= Len(text) }
    IN  IF marks = {} THEN None ELSE Some(Suffix(text, Min(marks) + 3))

\* re.compile(r".*by (.+)$", DOTALL).match(text): group 1, or None
by_cause_rgx(text) ==
    LET marks == { i \in Occurrences(text, "by ") : i + 3 <= Len(text) }
    IN  IF marks = {} THEN None ELSE Some(Suffix(text, Max(marks) + 3))

\* CaseParser.causes: rgx.match(text).group(1) raises AttributeError when
\* there is no match, and the handler returns None
causes(text) ==
    IF Contains(text, " with ")
    THEN (IF with_cause_rgx(text).none THEN NoneT
          ELSE Some(series_splitter(with_cause_rgx(text).v)))
    ELSE IF Contains(text, " by ")
    THEN (IF by_cause_rgx(text).none THEN NoneT
          ELSE Some(series_splitter(by_cause_rgx(text).v)))
    ELSE NoneT

\* CaseParser.ids, before tuple(): the set built by the loop
RECURSIVE ids(_)
ids(items) ==
    IF Len(items) = 0 THEN {}
    ELSE IF IsNumeric(items[1]) THEN {IntOf(items[1])} \cup ids(Tail(items))
    ELSE {}

\* whether the loop of CaseParser.ids raises: int(item) on a numeric item
\* that is no decimal literal, met before the first non-numeric item
RECURSIVE ids_raises(_)
ids_raises(items) ==
    IF Len(items) = 0 THEN FALSE
    ELSE IF IsNumeric(items[1]) THEN ~IsDecimal(items[1]) \/ ids_raises(Tail(items))
    ELSE FALSE

\* tuple(a set of int): the iteration order of a set is fixed in a process
\* and not specified by the language; ascending and descending are explored
RECURSIVE TupleOfSet(_, _)
TupleOfSet(S, order) ==
    IF S = {} THEN <<>>
    ELSE LET x == IF order = "asc" THEN Min(S) ELSE Max(S)
         IN  <<x>> \o TupleOfSet(S \ {x}, order)

STATUS_OPTIONS ==
    <<"abandoned", "captured", "damaged", "destroyed", "raised", "scuttled",
      "stripped", "sunk", "beyond economical repair">>

\* the words of STATUS_OPTIONS found in text, in the order of their first
\* occurrence in text
statuses_text_order(text) ==
    LET found == { w \in { STATUS_OPTIONS[n] : n \in 1..Len(STATUS_OPTIONS) } :
                     Contains(text, w) }
        at(w) == Min(Occurrences(text, w))
        before(w) == Cardinality({ v \in found : at(v) < at(w) })
    IN  [ k \in 1..Cardinality(found) |-> CHOOSE w \in found : before(w) = k - 1 ]

\* CaseParser.statuses
statuses(text) == SelectSeq(STATUS_OPTIONS, LAMBDA status : Contains(text, status))

(***************************************************************************)
(* Generator events.  A parser stage run to exhaustion gives the sequence  *)
(* of what it does, in order: a case it yields, a diagnostic it logs, or   *)
(* an exception that leaves it (always the last event).                    *)
(***************************************************************************)
Yield(case) == [kind |-> "yield", case |-> case, what |-> ""]

Log(what) == [kind |-> "log", case |-> Case(0, <<>>, None, NoneT), what |-> what]

Raise(what) == [kind |-> "raise", case |-> Case(0, <<>>, None, NoneT), what |-> what]

Raises(events) == Len(events) > 0 /\ events[Len(events)].kind = "raise"

\* a try block that lets the exception through
Caught_nothing(events, what) == events

\* try: <events> except Exception: logger.error(...)
Caught(events, what) ==
    IF Raises(events) THEN SubSeq(events, 1, Len(events) - 1) \o <<Log(what)>> ELSE events

\* the yielded cases of events, each changed by stamp
Stamped(events, stamp(_)) ==
    [ k \in 1..Len(events) |->
        IF events[k].kind = "yield" THEN Yield(stamp(events[k].case)) ELSE events[k] ]

CasesOf(events) ==
    LET ys == SelectSeq(events, LAMBDA e : e.kind = "yield")
    IN  [ k \in 1..Len(ys) |-> ys[k].case ]

\* CaseParser.__iter__, run to exhaustion: the events of one <a> tag
CaseParser(tag, order) ==
    LET text == text_of(tag)
        items == multisplit(text, <<",", " and ", " or ">>)
        idt == TupleOfSet(ids(items), order)
    IN  IF ids_raises(items) THEN <<Raise("ValueError")>>
        ELSE [ k \in 1..Len(idt) |->
                 Yield(Case(idt[k], statuses(text), tag.href, causes(text))) ]

\* the length of the longest run of characters of chars that starts at s[i]
RunLen(s, i, chars) ==
    IF i > Len(s) THEN 0
    ELSE Min({ p \in i..(Len(s) + 1) : p = Len(s) + 1 \/ Char(s, p) \notin chars }) - i

(***************************************************************************)
(* equipment_model.py: one <li> tag is [text, img, src, anchors]: its text *)
(* (that of its <a> tags included), whether it holds an <img>, the img's   *)
(* src (an option) and its <a> tags in document order.                     *)
(***************************************************************************)
\* model_pattern.match(substring): the match the backtracking finds first,
\* as <<leading whitespace, digits, whitespace>> lengths; {} when none
model_pattern(s) ==
    LET cands ==
          UNION { UNION { { <<a, b, c>> : c \in { x \in 1..RunLen(s, a + b + 1, Whitespace) :
                                                   a + b + x < Len(s) } } :
                          b \in 0..RunLen(s, a + 1, DigitChars) } :
                  a \in 0..RunLen(s, 1, Whitespace) }
        a == Max({ t[1] : t \in cands })
        b == Max({ t[2] : t \in { u \in cands : u[1] = a } })
        c == Max({ t[3] : t \in { u \in cands : u[1] = a /\ u[2] = b } })
    IN  IF cands = {} THEN {} ELSE {<<a, b, c>>}

\* EquipmentModelParser.model: None stands for the AttributeError of
\* match(...).group on no match
model(tag) ==
    LET substring == SplitOnce(tag.text, ":")[1]
        m == model_pattern(substring)
    IN  IF m = {} THEN None
        ELSE LET t == CHOOSE x \in m : TRUE
             IN  Some(Suffix(substring, t[1] + t[2] + t[3] + 1))

\* national_flag_url_pattern.match(url).group('country'), or None
national_flag_url_pattern(url) ==
    LET tails == { o \in Occurrences(url, ".svg/") : o + 5 <= Len(url) }
        \* the pattern after the country, which ends before position e
        rest(e) == \E o \in tails : o = e \/ (Char(url, e) = "_" /\ o >= e + 2)
        \* where the country starts, after /Flag_of_ at p and the_ or not
        start(p, the) == p + 9 + 4 * the
        cands ==
          UNION { UNION { { <<p, the, n>> : n \in { x \in 1..RunLen(url, start(p, the), WordChars) :
                                                       rest(start(p, the) + x) } } :
                          the \in { t \in {0, 1} : t = 1 => Slice(url, p + 9, p + 12) = "the_" } } :
                  p \in { o \in Occurrences(url, "/Flag_of_") : o >= 2 } }
        p == Max({ t[1] : t \in cands })
        the == Max({ t[2] : t \in { u \in cands : u[1] = p } })
        n == Max({ t[3] : t \in { u \in cands : u[1] = p /\ u[2] = the } })
    IN  IF cands = {} THEN None
        ELSE Some(SubSeq(url, start(p, the), start(p, the) + n - 1))

\* EquipmentModelParser.country_of_production, as events ending in the
\* returned value: <<Raise>> when the <img> or its src is missing (the
\* AttributeError raised again by the handler's own log line, the TypeError
\* of match(None)), a logged None when the URL does not match
country_of_production(tag) ==
    IF ~tag.img THEN [events |-> <<Raise("AttributeError")>>, value |-> None]
    ELSE IF tag.src.none THEN [events |-> <<Raise("TypeError")>>, value |-> None]
    ELSE LET match == national_flag_url_pattern(tag.src.v)
         IN  IF match.none
             THEN [events |-> <<Log("Could not extract country of production from URL")>>,
                   value |-> None]
             ELSE [events |-> <<>>, value |-> Some(Lower(Replace(match.v, "_", " ")))]

\* the loop of EquipmentModelParser.__iter__ over the <a> tags from the k-th
RECURSIVE EquipmentModelLoop(_, _, _, _, _)
EquipmentModelLoop(tag, k, m, country, order) ==
    IF k > Len(tag.anchors) THEN <<>>
    ELSE LET stamp(case) == [case EXCEPT !.model = m, !.country_of_production = country]
         IN  Caught(Stamped(CaseParser(tag.anchors[k], order), stamp), "a")
             \o EquipmentModelLoop(tag, k + 1, m, country, order)

\* EquipmentModelParser.__iter__
EquipmentModelParser(tag, order) ==
    LET m == model(tag)
        country == country_of_production(tag)
    IN  IF m.none THEN <<Raise("AttributeError")>>
        ELSE IF Raises(country.events) THEN country.events
        ELSE country.events \o EquipmentModelLoop(tag, 1, m, country.value, order)

(***************************************************************************)
(* asset_category.py.  The data region of a page is the sequence of its    *)
(* <h3> and <ul> elements in document order: [tag |-> "h3", text, items]   *)
(* with items the <li> children of a <ul>.                                 *)
(***************************************************************************)
\* asset_category_pattern.match(h3).group('asset_category'), or None
asset_category_pattern(h3) ==
    LET ends == { g \in 1..Len(h3) :
                    /\ \A i \in 1..g : Char(h3, i) # "\n"
                    /\ IsSpace(Char(h3, g + 1))
                    /\ Char(h3, g + 2) = "("
                    /\ RunLen(h3, g + 3, DigitChars) >= 1
                    /\ Char(h3, g + 3 + RunLen(h3, g + 3, DigitChars)) = "," }
    IN  IF ends = {} THEN None ELSE Some(SubSeq(h3, 1, Min(ends)))

\* AssetCategoryParser.asset_category: None stands for the AttributeError
asset_category(tag) ==
    LET match == asset_category_pattern(Strip(tag.text))
    IN  IF match.none THEN None ELSE Some(Lower(Strip(match.v)))

\* tag.find_next('ul'): the first <ul> after position at in document order,
\* 0 when there is none
find_next_ul(nodes, at) ==
    LET uls == { j \in (at + 1)..Len(nodes) : nodes[j].tag = "ul" }
    IN  IF uls = {} THEN 0 ELSE Min(uls)

\* the loop of AssetCategoryParser.__iter__ over the <li> tags from the k-th
RECURSIVE AssetCategoryLoop(_, _, _, _)
AssetCategoryLoop(items, k, category, order) ==
    IF k > Len(items) THEN <<>>
    ELSE LET stamp(case) == [case EXCEPT !.asset_category = category]
         IN  Caught(Stamped(EquipmentModelParser(items[k], order), stamp), "li")
             \o AssetCategoryLoop(items, k + 1, category, order)

\* AssetCategoryParser.__iter__ for the <h3> at position at
AssetCategoryParser(nodes, at, order) ==
    IF asset_category(nodes[at]).none THEN <<Raise("AttributeError")>>
    ELSE IF find_next_ul(nodes, at) = 0 THEN <<Raise("AttributeError")>>
    ELSE AssetCategoryLoop(nodes[find_next_ul(nodes, at)].items, 1,
                           asset_category(nodes[at]), order)


(***************************************************************************)
(* oryx_parser.py.  A page is [ndivs, region, nodes]: the number of        *)
(* top-level <div>s of the article, which of them holds the <h3>/<ul>      *)
(* elements, and those elements in document order.                         *)
(***************************************************************************)
\* category_header_regex.match(text) is not None
category_header_regex(text) ==
    LET nonspace == { i \in 1..Len(text) : ~IsSpace(Char(text, i)) }
    IN  /\ nonspace # {}
        /\ Char(text, Max(nonspace)) = ")"
        /\ \E i \in Occurrences(text, "(") :
              LET n == RunLen(text, i + 1, DigitChars)
              IN  /\ i >= 2
                  /\ n >= 1
                  /\ Slice(text, i + 1 + n, i + 2 + n) = ", "
                  /\ Max(nonspace) >= i + 4 + n

\* self.sections[k] (k counted from 1): the elements of the k-th <div>
SectionNodes(page, k) == IF k = page.region THEN page.nodes ELSE <<>>

\* a categories that finds no category where the source raises
categories_lenient(page, country_of_loss) ==
    [raises |-> "", tags |-> <<>>, nodes |-> <<>>]

\* OryxParser.categories: the positions of the accepted <h3> tags, or the
\* exception raised
categories(page, country_of_loss) ==
    LET k == IF country_of_loss = "ukraine" THEN 2 ELSE 8
        nodes == SectionNodes(page, k)
    IN  IF country_of_loss \notin {"ukraine", "russia"}
        THEN [raises |-> "ValueError", tags |-> <<>>, nodes |-> <<>>]
        ELSE IF k > page.ndivs
        THEN [raises |-> "IndexError", tags |-> <<>>, nodes |-> <<>>]
        ELSE [raises |-> "",
              tags |-> SelectSeq([ j \in 1..Len(nodes) |-> j ],
                                 LAMBDA j : nodes[j].tag = "h3"
                                            /\ category_header_regex(nodes[j].text)),
              nodes |-> nodes]

\* the loop of the undecorated OryxParser.cases over the categories from the
\* k-th
RECURSIVE CasesLoop(_, _, _, _, _)
CasesLoop(nodes, tags, k, country_of_loss, order) ==
    IF k > Len(tags) THEN <<>>
    ELSE LET stamp(case) == [case EXCEPT !.country_of_loss = Some(country_of_loss)]
         IN  Caught(Stamped(AssetCategoryParser(nodes, tags[k], order), stamp), "h3")
             \o CasesLoop(nodes, tags, k + 1, country_of_loss, order)

\* the undecorated generator OryxParser.cases, run to exhaustion
cases(page, country_of_loss, order) ==
    LET found == categories(page, country_of_loss)
    IN  IF found.raises # "" THEN <<Raise(found.raises)>>
        ELSE CasesLoop(found.nodes, found.tags, 1, country_of_loss, order)

(***************************************************************************)
(* correction.py.                                                          *)
(***************************************************************************)
\* a pattern that cuts the model at its last " with "
attachment_rgx_last(text) ==
    LET cands == { p \in Occurrences(text, " with ") : p >= 2 }
    IN  IF cands = {} THEN {}
        ELSE {<<SubSeq(text, 1, Max(cands) - 1), Suffix(text, Max(cands) + 6)>>}

\* rgx.match(case.model) of set_attachments: <<model, attachment>>, or {}
attachment_rgx(text) ==
    LET line(a, b) == \A i \in a..b : Char(text, i) # "\n"
        cands == { p \in Occurrences(text, " with ") :
                     /\ p >= 2
                     /\ line(1, p - 1)
                     /\ line(p + 6, Len(text) - 1) }
        p == Min(cands)
        rest == Suffix(text, p + 6)
    IN  IF cands = {} THEN {}
        ELSE {<<SubSeq(text, 1, p - 1),
                IF Char(text, Len(text)) = "\n" /\ Len(rest) > 0
                THEN SubSeq(rest, 1, Len(rest) - 1) ELSE rest>>}

\* a stage that leaves the descriptor to a later stage
set_attachments_late(case) == case

\* the body of set_attachments' loop for one case
set_attachments(case) ==
    LET match == attachment_rgx(case.model.v)
    IN  IF match = {} THEN case
        ELSE LET m == CHOOSE x \in match : TRUE
             IN  [case EXCEPT !.model = Some(m[1]), !.attachment = Some(m[2])]

\* set_attachments' wrapper on objects: heap holds the Case objects made so
\* far, ref is the place of the one received from upstream
set_attachments_in_place(heap, ref) ==
    LET match == attachment_rgx(heap[ref].model.v)
    IN  IF match = {} THEN [heap |-> heap, yielded |-> ref]
        ELSE LET m == CHOOSE x \in match : TRUE
             IN  [heap |-> [heap EXCEPT ![ref].model = Some(m[1]),
                                        ![ref].attachment = Some(m[2])],
                  yielded |-> ref]

\* one turn of the loop of set_attachments' wrapper on objects: copy(case)
\* makes a new object with the fields of the received one, the assignments
\* go to the copy, and the name case is bound to the copy before the yield
set_attachments_wrapper(heap, ref) ==
    LET match == attachment_rgx(heap[ref].model.v)
    IN  IF match = {} THEN [heap |-> heap, yielded |-> ref]
        ELSE LET m == CHOOSE x \in match : TRUE
                 _case == Len(heap) + 1
                 copied == Append(heap, heap[ref])
             IN  [heap |-> [copied EXCEPT ![_case].model = Some(m[1]),
                                          ![_case].attachment = Some(m[2])],
                  yielded |-> _case]

EmptyDict == [ k \in {} |-> 0 ]

\* an autoid that advances the counter of the model before it yields
autoid_counts_ahead(model_counts, case) ==
    IF case.model.v \in DOMAIN model_counts
    THEN [model_counts EXCEPT ![case.model.v] = @ + 1]
    ELSE (case.model.v :> 2) @@ model_counts

\* autoid, before its yield: the counter of a new model starts at 1 and the
\* case takes the counter's value
autoid_counts(model_counts, case) ==
    IF case.model.v \in DOMAIN model_counts THEN model_counts
    ELSE (case.model.v :> 1) @@ model_counts

autoid_case(model_counts, case) ==
    [case EXCEPT !.model_case_id = autoid_counts(model_counts, case)[case.model.v]]

\* autoid, after its yield: model_counts[case.model] += 1
autoid_resume(model_counts, pending) ==
    IF pending.none THEN model_counts
    ELSE [model_counts EXCEPT ![pending.v] = @ + 1]

(***************************************************************************)
(* validation.py: a rule gives the reason of the AssertionError it raises, *)
(* or None when it returns.  In the model model_case_id is always an int,  *)
(* asset_status a tuple of str and cause None or a tuple of str, so the    *)
(* isinstance checks on them pass.                                         *)
(***************************************************************************)
rule_model_case_id(case) ==
    IF case.model_case_id < 1 THEN Some("Case.model_case_id is less than 1") ELSE None

rule_status(case) ==
    IF Len(case.asset_status) = 0 THEN Some("Case.status is empty")
    ELSE IF \E i \in 1..Len(case.asset_status) : Len(case.asset_status[i]) = 0
    THEN Some("Case.status contains an empty element")
    ELSE None

rule_confirmation_url(case) ==
    IF case.confirmation_url.none THEN Some("Case.confirmation_url is not a string")
    ELSE IF Len(case.confirmation_url.v) = 0
    THEN Some("Case.confirmation_url is an empty string")
    ELSE None

\* a rulebook without the rule on Case.cause
rule_cause_skipped(case) == None

rule_cause(case) ==
    IF case.cause.none THEN None
    ELSE IF Len(case.cause.v) = 0 THEN Some("Case.cause is an empty tuple")
    ELSE IF \E i \in 1..Len(case.cause.v) : Len(case.cause.v[i]) = 0
    THEN Some("Case.cause contains an empty element")
    ELSE None

rule_asset_category(case) ==
    IF case.asset_category.none THEN Some("Case.asset_category is not a string")
    ELSE IF Len(case.asset_category.v) = 0 THEN Some("Case.asset_category is an empty string")
    ELSE IF ~IsLower(case.asset_category.v) THEN Some("Case.asset_category is not lowercase")
    ELSE None

rule_model(case) ==
    IF case.model.none THEN Some("Case.model is not a string")
    ELSE IF Len(case.model.v) = 0 THEN Some("Case.model is an empty string")
    ELSE None

rule_country_of_loss(case) ==
    IF case.country_of_loss.none THEN Some("Case.country_of_loss is not a string")
    ELSE IF Len(case.country_of_loss.v) = 0 THEN Some("Case.country_of_loss is an empty string")
    ELSE IF ~IsLower(case.country_of_loss.v) THEN Some("Case.country_of_loss is not lowercase")
    ELSE None

\* a rule that takes None for a country
rule_country_of_production_lenient(case) ==
    IF case.country_of_production.none THEN None
    ELSE IF Len(case.country_of_production.v) = 0
    THEN Some("Case.country_of_production is an empty string")
    ELSE IF ~IsLower(case.country_of_production.v)
    THEN Some("Case.country_of_production is not lowercase")
    ELSE None

rule_country_of_production(case) ==
    IF case.country_of_production.none
    THEN Some("Case.country_of_production is not a string")
    ELSE IF Len(case.country_of_production.v) = 0
    THEN Some("Case.country_of_production is an empty string")
    ELSE IF ~IsLower(case.country_of_production.v)
    THEN Some("Case.country_of_production is not lowercase")
    ELSE None

\* attachment is None or a str
rule_attachment(case) == None

\* the rules registered in default_rulebook, in the order of their definition
default_rulebook ==
    <<"rule_model_case_id", "rule_status", "rule_confirmation_url", "rule_cause",
      "rule_asset_category", "rule_model", "rule_country_of_loss",
      "rule_country_of_production", "rule_attachment">>

\* rule(case), for a rule of default_rulebook
Rule(name, case) ==
    CASE name = "rule_model_case_id" -> rule_model_case_id(case)
      [] name = "rule_status" -> rule_status(case)
      [] name = "rule_confirmation_url" -> rule_confirmation_url(case)
      [] name = "rule_cause" -> rule_cause(case)
      [] name = "rule_asset_category" -> rule_asset_category(case)
      [] name = "rule_model" -> rule_model(case)
      [] name = "rule_country_of_loss" -> rule_country_of_loss(case)
      [] name = "rule_country_of_production" -> rule_country_of_production(case)
      [] name = "rule_attachment" -> rule_attachment(case)

\* a rulebook that runs all its rules and raises what the last failing one
\* raised
RuleBook_validate_last(rules, case) ==
    LET failing == { j \in 1..Len(rules) : ~Rule(rules[j], case).none }
    IN  IF failing = {} THEN None ELSE Rule(rules[Max(failing)], case)

\* RuleBook.validate: the rules run in the iteration order of the set
\* self.rules, here the sequence rules; the first AssertionError leaves the
\* loop.  The reason raised, or None
RECURSIVE RuleBook_validate(_, _)
RuleBook_validate(rules, case) ==
    IF Len(rules) = 0 THEN None
    ELSE IF ~Rule(rules[1], case).none THEN Rule(rules[1], case)
    ELSE RuleBook_validate(Tail(rules), case)

(***************************************************************************)
(* rulebook.py and the decorator stack of OryxParser.cases:                *)
(*   validate(rulebook, logger)(autoid(set_attachments(cases))).           *)
(* One invocation is the generator the decorated cases returns.  Its state *)
(* is where its frames are suspended: cursor counts the events the         *)
(* undecorated generator has gone through, pending is the model whose      *)
(* counter autoid increments when it is resumed, and model_counts and      *)
(* reason_tracker are the local dictionaries of the wrappers.              *)
(***************************************************************************)
LogLine(level, what, tracker) == [level |-> level, what |-> what, tracker |-> tracker]

\* the state of a generator that has not been called
Absent ==
    [pc |-> "absent", cursor |-> 0, model_counts |-> EmptyDict, pending |-> None,
     reason_tracker |-> EmptyDict, out |-> <<>>, log |-> <<>>, error |-> ""]

\* parser.cases(country_of_loss): the generator object is made, no frame of
\* it has run, and the wrappers' dictionaries are made at the first next()
Called == [Absent EXCEPT !.pc = "fresh"]

RECURSIVE SumOver(_, _)
SumOver(f, keys) ==
    IF keys = {} THEN 0
    ELSE LET k == CHOOSE x \in keys : TRUE IN f[k] + SumOver(f, keys \ {k})

\* a wrapper that logs its summary whatever the total
validate_summary_always(r) ==
    LET total == SumOver(r.reason_tracker, DOMAIN r.reason_tracker)
        tracker == ("total" :> total) @@ r.reason_tracker
    IN  [r EXCEPT !.pc = "done",
                  !.reason_tracker = tracker,
                  !.log = Append(@, LogLine("error", "Validation Tracker", tracker))]

\* the end of validate's wrapper, after its loop: the total is added to the
\* tracker and the summary is logged when something failed
validate_summary(r) ==
    LET total == SumOver(r.reason_tracker, DOMAIN r.reason_tracker)
        tracker == ("total" :> total) @@ r.reason_tracker
    IN  [r EXCEPT !.pc = "done",
                  !.reason_tracker = tracker,
                  !.log = IF total > 0
                          THEN Append(@, LogLine("error", "Validation Tracker", tracker))
                          ELSE @]

\* a wrapper that counts a failure twice
track_reason_twice(reason_tracker, reason) ==
    IF reason \in DOMAIN reason_tracker
    THEN [reason_tracker EXCEPT ![reason] = @ + 2]
    ELSE (reason :> 2) @@ reason_tracker

\* the except branch of validate's wrapper: reason_tracker[_e] += 1
track_reason(reason_tracker, reason) ==
    IF reason \in DOMAIN reason_tracker
    THEN [reason_tracker EXCEPT ![reason] = @ + 1]
    ELSE (reason :> 1) @@ reason_tracker

\* one next() on the decorated generator: the frames run until validate's
\* wrapper yields a case, the undecorated generator ends, or an exception
\* leaves the stack.  events are those of the undecorated generator, rules
\* the rulebook's rules in iteration order.
RECURSIVE Resume(_, _, _)
Resume(r, events, rules) ==
    LET resumed == [r EXCEPT !.model_counts = autoid_resume(r.model_counts, r.pending),
                             !.pending = None]
    IN  IF r.cursor = Len(events) THEN validate_summary(resumed)
        ELSE LET e == events[r.cursor + 1]
                 at == [resumed EXCEPT !.cursor = @ + 1]
             IN  IF e.kind = "log"
                 THEN Resume([at EXCEPT !.log = Append(@, LogLine("error", e.what, EmptyDict))],
                             events, rules)
                 ELSE IF e.kind = "raise"
                 THEN [at EXCEPT !.pc = "raised", !.error = e.what]
                 ELSE LET attached == set_attachments(e.case)
                          counts == autoid_counts(at.model_counts, attached)
                          case == autoid_case(at.model_counts, attached)
                          failure == RuleBook_validate(rules, case)
                          numbered == [at EXCEPT !.model_counts = counts,
                                                 !.pending = case.model]
                      IN  IF failure.none
                          THEN [numbered EXCEPT !.pc = "suspended", !.out = Append(@, case)]
                          ELSE Resume([numbered EXCEPT
                                         !.reason_tracker = track_reason(@, failure.v),
                                         !.log = Append(@, LogLine("debug", failure.v, EmptyDict))],
                                      events, rules)

\* for case in parser.cases(belligerent): next() until the generator ends or
\* an exception leaves it
RECURSIVE Exhaust(_, _, _)
Exhaust(r, events, rules) ==
    IF r.pc \in {"done", "raised"} THEN r
    ELSE Exhaust(Resume(r, events, rules), events, rules)

\* autoid's loop over a whole stream of cases, from the counters model_counts
RECURSIVE autoid(_, _)
autoid(stream, model_counts) ==
    IF Len(stream) = 0 THEN <<>>
    ELSE <<autoid_case(model_counts, stream[1])>>
         \o autoid(Tail(stream),
                   autoid_resume(autoid_counts(model_counts, stream[1]), stream[1].model))

\* set_attachments' loop over a whole stream of cases
Attached(stream) == [ k \in 1..Len(stream) |-> set_attachments(stream[k]) ]

\* autoid(set_attachments(cases)) run to exhaustion: the cases that reach
\* validate's wrapper
Corrected(events) == autoid(Attached(CasesOf(events)), EmptyDict)

(***************************************************************************)
(* yale_parser.py.  The page is a function from the section ids to what    *)
(* soup.find('section', id) gives: whether the <section> is found, whether *)
(* it holds the layout region, and in the region the <h3> text, whether    *)
(* the div.text-long is there, the text of its <p>, whether the table is   *)
(* there, the texts of the <th> of its <thead> and the rows of its <tbody> *)
(* (each row the texts of its <td>).  A missing element is None.           *)
(***************************************************************************)
SECTION_IDS == <<"diggingin", "buyingtime", "scalingback", "suspension", "withdrawal">>

Company(name, action, industry, country, grade, status, description) ==
    [name |-> name, action |-> action, industry |-> industry, country |-> country,
     grade |-> grade, status |-> status, description |-> description]

\* StatusSection._definition_pattern.match(text): the groups, or None
definition_pattern(text) ==
    LET T == Len(text)
        opens == { q \in 3..(T - 23) :
                     /\ Char(text, q) = "("
                     /\ Char(text, q - 1) = " "
                     /\ \A x \in (q + 1)..(T - 22) : IsDigit(Char(text, x))
                     /\ \A x \in 1..(q - 2) : Char(text, x) # "\n" }
    IN  IF /\ T >= 26
           /\ Char(text, T) = ")"
           /\ Char(text, T - 1) \in WordChars
           /\ SubSeq(text, T - 21, T - 2) = " Companies) (Grade: "
           /\ opens # {}
        THEN [none |-> FALSE, definition |-> SubSeq(text, 1, Max(opens) - 2),
              grade |-> Char(text, T - 1)]
        ELSE [none |-> TRUE, definition |-> "", grade |-> ""]

\* StatusSection.status
status(tree) == IF tree.h3.none THEN None ELSE Some(Strip(tree.h3.v))

\* StatusSection.description and StatusSection.grade: raises stands for the
\* AttributeError of p.text when the div has no <p>
description(tree) ==
    IF ~tree.body THEN [raises |-> FALSE, value |-> None]
    ELSE IF tree.p.none THEN [raises |-> TRUE, value |-> None]
    ELSE LET match == definition_pattern(Strip(tree.p.v))
         IN  [raises |-> FALSE,
              value |-> IF match.none THEN None ELSE Some(match.definition)]

grade(tree) ==
    IF ~tree.body THEN [raises |-> FALSE, value |-> None]
    ELSE IF tree.p.none THEN [raises |-> TRUE, value |-> None]
    ELSE LET match == definition_pattern(Strip(tree.p.v))
         IN  [raises |-> FALSE,
              value |-> IF match.none THEN None ELSE Some(match.grade)]

\* StatusSection.__init__: tree is None when the section has no layout region,
\* and self.tree.find raises AttributeError in grade()
StatusSection(tree) ==
    IF ~tree.region \/ grade(tree).raises
    THEN [raises |-> "AttributeError", _grade |-> None, _status |-> None,
          _description |-> None]
    ELSE [raises |-> "", _grade |-> grade(tree).value, _status |-> status(tree),
          _description |-> description(tree).value]

\* row.get(col): the text of the last <td> under a header col, stripped
RowGet(thead, tr, col) ==
    LET under == { i \in 1..Len(tr) : thead[i] = col }
    IN  IF under = {} THEN None ELSE Some(Strip(tr[Max(under)]))

YieldCompany(company) == [kind |-> "yield", company |-> company, what |-> ""]

RaiseCompany(what) ==
    [kind |-> "raise", company |-> Company(None, None, None, None, None, None, None),
     what |-> what]

\* the loop of StatusSection.companies over the rows from the k-th: a row
\* with more <td> than there are <th> raises KeyError
RECURSIVE CompanyRows(_, _, _, _)
CompanyRows(thead, rows, k, self) ==
    IF k > Len(rows) THEN <<>>
    ELSE IF Len(rows[k]) > Len(thead) THEN <<RaiseCompany("KeyError")>>
    ELSE <<YieldCompany(Company(RowGet(thead, rows[k], "Name"),
                                RowGet(thead, rows[k], "Action"),
                                RowGet(thead, rows[k], "Industry"),
                                RowGet(thead, rows[k], "Country"),
                                self._grade, self._status, self._description))>>
         \o CompanyRows(thead, rows, k + 1, self)

\* StatusSection.companies: the try covers the table and its head only, and
\* tbody.find_all raises outside it when the table has no <tbody>
StatusSection_companies(tree, self) ==
    IF ~tree.table \/ tree.thead.none THEN <<>>
    ELSE IF tree.tbody.none THEN <<RaiseCompany("AttributeError")>>
    ELSE CompanyRows(tree.thead.v, tree.tbody.v, 1, self)

\* YaleParser.sections: the ids whose <section> is found, in order; what is
\* yielded for one of them is its layout region, or None
sections(soup) == SelectSeq(SECTION_IDS, LAMBDA id : soup[id].found)

\* StatusSection.descriptions_by_grade[self._grade] = {...}
SetDescription(by_grade, self) ==
    (self._grade :> [status |-> self._status, description |-> self._description])
    @@ by_grade

\* yield from StatusSection(tree).companies(), followed by what the loop of
\* YaleParser.companies does next
YieldFrom(made, marked, rest) ==
    IF Len(made) > 0 /\ made[Len(made)].kind = "raise"
    THEN [events |-> made, by_grade |-> marked]
    ELSE [events |-> made \o rest.events, by_grade |-> rest.by_grade]

\* the loop of YaleParser.companies over the sections from the k-th: the
\* events of the generator and the class attribute descriptions_by_grade
RECURSIVE YaleParser_companies(_, _, _, _)
RECURSIVE YaleParser_section(_, _, _, _, _)
YaleParser_section(soup, found, k, by_grade, self) ==
    IF self.raises # ""
    THEN [events |-> <<RaiseCompany(self.raises)>>, by_grade |-> by_grade]
    ELSE YieldFrom(StatusSection_companies(soup[found[k]], self),
                   SetDescription(by_grade, self),
                   YaleParser_companies(soup, found, k + 1, SetDescription(by_grade, self)))

YaleParser_companies(soup, found, k, by_grade) ==
    IF k > Len(found) THEN [events |-> <<>>, by_grade |-> by_grade]
    ELSE YaleParser_section(soup, found, k, by_grade, StatusSection(soup[found[k]]))

(***************************************************************************)
(* yale_company_operations/validation.py: the reason of the AssertionError *)
(* a rule raises, or None.                                                 *)
(***************************************************************************)
rule_name(company) ==
    IF company.name.none THEN Some("Company.name is not a string") ELSE None

rule_action(company) ==
    IF company.action.none THEN Some("Company.action is not a string") ELSE None

rule_industry(company) ==
    IF company.industry.none THEN Some("Company.industry is not a string") ELSE None

rule_country(company) ==
    IF company.country.none THEN Some("Company.country is not a string") ELSE None

rule_grade(company) ==
    IF company.grade.none THEN Some("Company.grade is not a string")
    ELSE IF company.grade.v \notin {"A", "B", "C", "D", "F"}
    THEN Some("Company.grade is not recognized")
    ELSE None

company_rule_status(company) ==
    IF company.status.none THEN Some("Company.status is not a string") ELSE None

rule_description(company) ==
    IF company.description.none THEN Some("Company.description is not a string") ELSE None

\* the rules registered in the Yale default_rulebook, in the order of their
\* definition
company_default_rulebook ==
    <<"rule_name", "rule_action", "rule_industry", "rule_country", "rule_grade",
      "rule_status", "rule_description">>

CompanyRule(name, company) ==
    CASE name = "rule_name" -> rule_name(company)
      [] name = "rule_action" -> rule_action(company)
      [] name = "rule_industry" -> rule_industry(company)
      [] name = "rule_country" -> rule_country(company)
      [] name = "rule_grade" -> rule_grade(company)
      [] name = "rule_status" -> company_rule_status(company)
      [] name = "rule_description" -> rule_description(company)

\* RuleBook.validate on a Company, the rules in iteration order
RECURSIVE RuleBook_validate_company(_, _)
RuleBook_validate_company(rules, company) ==
    IF Len(rules) = 0 THEN None
    ELSE IF ~CompanyRule(rules[1], company).none THEN CompanyRule(rules[1], company)
    ELSE RuleBook_validate_company(Tail(rules), company)

\* a call that has not been made
NotCalled ==
    [pc |-> "idle", call |-> "", result |-> <<>>, error |-> "",
     reason_tracker |-> EmptyDict, log |-> <<>>]

\* YaleParser.parse: the list of all the companies, or the exception that
\* leaves the list comprehension
parse(events) ==
    IF Len(events) > 0 /\ events[Len(events)].kind = "raise"
    THEN [NotCalled EXCEPT !.pc = "raised", !.call = "parse",
                           !.error = events[Len(events)].what]
    ELSE [NotCalled EXCEPT !.pc = "returned", !.call = "parse",
                           !.result = [ k \in 1..Len(events) |-> events[k].company ]]

\* validate's wrapper around YaleParser.companies, consumed by parse: the loop
\* from the k-th event, r the call's record
RECURSIVE validate_companies(_, _, _, _)
validate_companies(r, events, k, rules) ==
    IF k > Len(events) THEN validate_summary([r EXCEPT !.call = "parse_page"])
    ELSE IF events[k].kind = "raise"
    THEN [r EXCEPT !.pc = "raised", !.call = "parse_page", !.error = events[k].what,
                   !.result = <<>>]
    ELSE LET failure == RuleBook_validate_company(rules, events[k].company)
         IN  IF failure.none
             THEN validate_companies([r EXCEPT !.result = Append(@, events[k].company)],
                                     events, k + 1, rules)
             ELSE validate_companies(
                      [r EXCEPT !.reason_tracker = track_reason(@, failure.v),
                                !.log = Append(@, LogLine("debug", failure.v, EmptyDict))],
                      events, k + 1, rules)

\* parse_page: parser.companies is wrapped by validate, then parser.parse()
parse_page(events, rules) ==
    LET r == validate_companies(NotCalled, events, 1, rules)
    IN  IF r.pc = "done" THEN [r EXCEPT !.pc = "returned"] ELSE r

(***************************************************************************)
(* Inputs.                                                                 *)
(***************************************************************************)
A(href, text) == [href |-> href, text |-> text]

RECURSIVE Concat(_)
Concat(strs) == IF Len(strs) = 0 THEN "" ELSE strs[1] \o " " \o Concat(Tail(strs))

\* an <li>: its own text up to the colon, its flag image and its <a> tags
Li(prefix, img, src, anchors) ==
    [text |-> prefix \o ": " \o Concat([ k \in 1..Len(anchors) |-> anchors[k].text ]),
     img |-> img, src |-> src, anchors |-> anchors]

H3(text) == [tag |-> "h3", text |-> text, items |-> <<>>]

Ul(items) == [tag |-> "ul", text |-> "", items |-> items]

FlagSoviet == Some("w/Flag_of_the_Soviet_Union.svg/23px.png")

FlagRussia == Some("w/Flag_of_Russia.svg/23px.png")

ListA ==
    Ul(<<Li(" 4 T-72B", TRUE, FlagSoviet,
            <<A(Some("u1"), "(1, destroyed)"),
              A(Some("u2"), "(4, lost)"),
              A(Some("u3"), "(2 and 3, damaged by ATGM and mine)")>>),
         Li(" 1 T-90 with ERA", TRUE, FlagRussia,
            <<A(Some("u4"), "(1, with Kornet, destroyed)")>>)>>)

ListB ==
    Ul(<<Li(" 2 T-72B", TRUE, Some("w/flag.png"), <<A(Some("u5"), "(1, captured)")>>),
         Li("BTR-70", TRUE, FlagSoviet, <<A(Some("u6"), "(1, captured)")>>),
         Li(" 3 T-90", TRUE, FlagRussia,
            <<A(None, "(9, sunk)"),
              A(Some("u7"), "(1, ², damaged)"),
              A(None, "(7, lost)"),
              A(Some("u8"), "(8, captured by a, )"),
              A(Some("u9"), "(5, abandoned)")>>)>>)

\* a list whose records all pass the rulebook: a model, and the same model
\* with a clause
ListC ==
    Ul(<<Li(" 2 Su-25", TRUE, FlagRussia, <<A(Some("u0"), "(1 and 2, destroyed)")>>),
         Li(" 1 Su-25 with R-60", TRUE, FlagSoviet, <<A(Some("u10"), "(1, damaged)")>>)>>)

NodeCatalog ==
    {H3("Tanks (5, destroyed: 2)"), H3("Aircraft (1, destroyed: 1)"),
     H3("Trucks(1, captured: 1)"), H3("Russia"), ListA, ListB, ListC}

\* the longest data region, in elements
MaxNodes == 3

RECURSIVE SeqsUpTo(_, _)
SeqsUpTo(S, n) ==
    IF n = 0 THEN {<<>>}
    ELSE SeqsUpTo(S, n - 1)
         \cup { Append(q, x) : q \in { p \in SeqsUpTo(S, n - 1) : Len(p) = n - 1 }, x \in S }

\* the iteration orders of the rulebook's set of rules that are explored
Reverse(q) == [ k \in 1..Len(q) |-> q[Len(q) + 1 - k] ]

RuleOrders == {default_rulebook, Reverse(default_rulebook)}

Orders == [ids : {"asc", "desc"}, rules : RuleOrders]

\* the entries: an id part, then a status part with or without a cause
IdParts == {"1", "2 and 3", "1, 1 or 2", "8, 1", "x", "1, ², 4", "", "12"}

StatusParts ==
    {", destroyed", ", with ATGM, destroyed", ", damaged by ATGM and mine",
     ", destroyed by ", ", captured and destroyed", ", damaged, 7",
     ", damaged by standby crew", ", with a by b, sunk"}

EntryTags ==
    { A(href, "(" \o idpart \o statuspart \o ")") :
        href \in {None, Some("u1")}, idpart \in IdParts, statuspart \in StatusParts }

\* a well-formed section, the k-th of the page
Numerals == "12345"

Grades == "FDCBA"

WellFormed(k) ==
    [found |-> TRUE, region |-> TRUE,
     h3 |-> Some(" " \o SECTION_IDS[k] \o "\n"),
     body |-> TRUE,
     p |-> Some("Def" \o Char(Numerals, k) \o " (1 Companies) (Grade: "
                \o Char(Grades, k) \o ")\n"),
     table |-> TRUE,
     thead |-> Some(<<"Name", "Action", "Industry", "Country">>),
     tbody |-> Some(<<<<" Co" \o Char(Numerals, k), "Act", "Ind", "RU ">>>>)]

\* the ways in which a section differs from a well-formed one
Kinds ==
    {"no_section", "no_region", "no_body", "no_p", "bad_p", "no_table", "no_thead",
     "no_tbody", "no_h3", "wide_row", "short_row"}

Malformed(k, kind) ==
    CASE kind = "no_section" -> [WellFormed(k) EXCEPT !.found = FALSE]
      [] kind = "no_region" -> [WellFormed(k) EXCEPT !.region = FALSE]
      [] kind = "no_body" -> [WellFormed(k) EXCEPT !.body = FALSE]
      [] kind = "no_p" -> [WellFormed(k) EXCEPT !.p = None]
      [] kind = "bad_p" -> [WellFormed(k) EXCEPT !.p = Some("Def (Grade: F)")]
      [] kind = "no_table" -> [WellFormed(k) EXCEPT !.table = FALSE]
      [] kind = "no_thead" -> [WellFormed(k) EXCEPT !.thead = NoneT]
      [] kind = "no_tbody" -> [WellFormed(k) EXCEPT !.tbody = NoneT]
      [] kind = "no_h3" -> [WellFormed(k) EXCEPT !.h3 = None]
      [] kind = "wide_row" ->
           [WellFormed(k) EXCEPT !.tbody = Some(<<<<"Co", "Act", "Ind", "RU", "x">>>>)]
      [] kind = "short_row" ->
           [WellFormed(k) EXCEPT !.tbody = Some(<<<<"Co", "Act", "Ind">>>>)]

\* the most sections of a page that are not well-formed
MaxMalformed == 2

\* which sections of the page are not well-formed, and how
Malformations ==
    UNION { [S -> Kinds] : S \in { T \in SUBSET (1..Len(SECTION_IDS)) :
                                     Cardinality(T) <= MaxMalformed } }

SoupOf(bad) ==
    [ id \in { SECTION_IDS[k] : k \in 1..Len(SECTION_IDS) } |->
        LET k == CHOOSE n \in 1..Len(SECTION_IDS) : SECTION_IDS[n] = id
        IN  IF k \in DOMAIN bad THEN Malformed(k, bad[k]) ELSE WellFormed(k) ]

Soups == { SoupOf(bad) : bad \in Malformations }

\* a flag URL of WikiMedia: '<dir>/Flag_of_[the_]<country>[_qualifier].svg/<file>'
FlagUrl(the, country, qualifier) ==
    "w/Flag_of_" \o the \o country \o qualifier \o ".svg/23px.png"

Articles == {"", "the_"}

Countries == {"Italy", "Soviet_Union", "People's_Republic"}

Qualifiers == {"", "_(1991-1993)"}

\* URLs without the marker of a flag
Unmarked == {"", "w/flag.png", "w/Flag_of_Italy.svg", "w/Flag_of_.svg/23px.png"}

\* the <li> tags given to country_of_production: with a flag URL, with a URL
\* that has no marker, with an <img> without src, without <img>
FlagTags ==
    { Li(" 1 T-72B", TRUE, Some(FlagUrl(the, country, qualifier)), <<>>) :
        the \in Articles, country \in Countries, qualifier \in Qualifiers }
    \cup { Li(" 1 T-72B", TRUE, Some(url), <<>>) : url \in Unmarked }
    \cup { Li(" 1 T-72B", TRUE, None, <<>>), Li(" 1 T-72B", FALSE, None, <<>>) }

\* the models of the records given to set_attachments: a model starts with
\* the first character after the whitespace that follows the count
Models ==
    {"T-90", "T-90 with ERA", "T-90 with ERA with cage", "T-90 with ", "T-90 with",
     "with ERA", "T-90 without ERA", "a with b"}

\* the records that reach set_attachments: the parser chain has set every
\* field but attachment
ParsedCases ==
    { [Case(_id, sts, url, cause) EXCEPT !.asset_category = Some("tanks"),
                                        !.model = Some(m),
                                        !.country_of_loss = Some("russia"),
                                        !.country_of_production = country] :
        _id \in {1, 7}, sts \in {<<>>, <<"captured", "destroyed">>},
        url \in {None, Some("u1")}, cause \in {NoneT, Some(<<"ATGM">>)},
        country \in {None, Some("soviet union")}, m \in Models }

\* the fragments given to statuses
StatusTexts ==
    {"1, destroyed", "1, destroyed and captured", "1, captured and destroyed",
     "1, damaged, damaged", "1, lost", "2, damaged beyond economical repair",
     "3, sunk and raised", "4, Destroyed", "5, undamaged", "",
     "6, damaged and abandoned by crew, later destroyed"}

\* the items of a series: not empty, without ', ', without a conjunction
\* word, without whitespace at their ends
SeriesItems == {"a", "b c", "android", "ATGM"}

\* the most items of a series
MaxItems == 3

RECURSIVE Join(_, _)
Join(q, sep) ==
    IF Len(q) = 0 THEN ""
    ELSE IF Len(q) = 1 THEN q[1]
    ELSE q[1] \o sep \o Join(Tail(q), sep)

\* 'a, b, and c'
Oxford(q) ==
    IF Len(q) = 1 THEN q[1]
    ELSE Join(SubSeq(q, 1, Len(q) - 1), ", ") \o ", and " \o q[Len(q)]

\* 'a, b and c'
Plain(q) ==
    IF Len(q) = 1 THEN q[1]
    ELSE Join(SubSeq(q, 1, Len(q) - 1), ", ") \o " and " \o q[Len(q)]

Series == SeqsUpTo(SeriesItems, MaxItems) \ {<<>>}

\* series with several conjunctions, with other conjunctions, with none
SeriesTexts ==
    {"a and b and c", "a, b and c and d", "a, and b and c", "a or b and c",
     "a and b or c", "a nor b", "a, but b", "a, b", "x", "a and b, c",
     "a or b or c", "ATGM and mine", "a, b, or c", "a but b but c but d"}

\* the texts and delimiters given to multisplit
MultiTexts ==
    {"a, b and c", "1, 1 or 2, destroyed", "2 and 3, damaged by ATGM and mine",
     " a ,b", "a and b and c", "x", "", "a or b, c and d", ", and ", "1,2 or 3 and 4"}

MultiDelimiters ==
    {<<",", " and ">>, <<",", " and ", " or ">>, <<" and ", ",">>, <<",">>}

\* a function called on its own: before the call
NotReturned == [pc |-> "idle", value |-> <<>>, log |-> <<>>, error |-> ""]

(***************************************************************************)
(* utils.py: type_cast and lex_alphabet_items.  The generator's frame is   *)
(* [pc, a, b]: a and b are the indices of the code, counted from 0.        *)
(***************************************************************************)
\* text[b] in alphabet
lex_allowed(text, alphabet, b) == Contains(alphabet, Char(text, b + 1))

\* while b < len(text) and text[b] not in alphabet: b += 1.  The loop
\* leaves b at the first index from b on that is len(text) or the index of
\* a character of alphabet
lex_skip(text, alphabet, b) ==
    IF b >= Len(text) THEN b
    ELSE Min({ i \in b..Len(text) : i = Len(text) \/ lex_allowed(text, alphabet, i) })

\* while b < len(text) and text[b] in alphabet: b += 1.  The loop leaves b
\* at the first index from b on that is len(text) or the index of a
\* character that is not in alphabet
lex_run(text, alphabet, b) ==
    IF b >= Len(text) THEN b
    ELSE Min({ i \in b..Len(text) : i = Len(text) \/ ~lex_allowed(text, alphabet, i) })

\* a generator that steps over two characters after a run
lex_resume_far(b) == b + 2

\* b += 1 after the yield
lex_resume(b) == b + 1

\* the generator's frame before its first next()
LexFresh == [pc |-> "fresh", a |-> 0, b |-> 0]

\* one next() on the generator: the frame after it and the item yielded,
\* None for StopIteration
lex_alphabet_items_next(text, alphabet, frame) ==
    LET from == IF frame.pc = "suspended" THEN lex_resume(frame.b) ELSE frame.b
        b == lex_skip(text, alphabet, from)
        a == b
        end == lex_run(text, alphabet, a)
    IN  IF b >= Len(text)
        THEN [frame |-> [pc |-> "done", a |-> frame.a, b |-> b], item |-> None]
        ELSE [frame |-> [pc |-> "suspended", a |-> a, b |-> end],
              item |-> Some(SubSeq(text, a + 1, end))]

\* the generator consumed to its end from frame: the items it yields
RECURSIVE lex_alphabet_items(_, _, _)
lex_alphabet_items(text, alphabet, frame) ==
    CHOOSE items \in
        { IF step.item.none THEN <<>>
          ELSE <<step.item.v>> \o lex_alphabet_items(text, alphabet, step.frame) :
            step \in {lex_alphabet_items_next(text, alphabet, frame)} } : TRUE

\* repr() of a str without quotes or backslashes
repr(x) == "'" \o x \o "'"

\* repr() of cast_as(run) for one run: tuple and list take the run's
\* characters, int its decimal value
ReprOfCast(cast_as, x) ==
    LET chars == Join([ k \in 1..Len(x) |-> repr(Char(x, k)) ], ", ")
    IN  CASE cast_as = "tuple" -> "(" \o chars \o (IF Len(x) = 1 THEN "," ELSE "") \o ")"
          [] cast_as = "list" -> "[" \o chars \o "]"
          [] cast_as = "int" -> ToString(IntOf(x))

\* a decorator that casts each item of the generator
type_cast_each(text, alphabet, cast_as) ==
    LET result == lex_alphabet_items(text, alphabet, LexFresh)
    IN  IF cast_as = "" THEN [NotReturned EXCEPT !.pc = "generator",
                                                  !.value = [frame |-> LexFresh, got |-> <<>>]]
        ELSE IF cast_as = "int" /\ \E k \in 1..Len(result) : ~IsDecimal(result[k])
        THEN [NotReturned EXCEPT !.pc = "raised", !.error = "ValueError"]
        ELSE [NotReturned EXCEPT
                !.pc = "returned",
                !.value = [type |-> "generator",
                           items |-> [ k \in 1..Len(result) |-> ReprOfCast(cast_as, result[k]) ]]]

\* type_cast's wrapper around lex_alphabet_items: result is the generator
\* object, returned as it is when cast_as is None ("" here) and given
\* whole to cast_as otherwise; tuple and list consume it and hold its items,
\* int raises TypeError on a generator.  The items of a collection are
\* given by their repr()
type_cast(text, alphabet, cast_as) ==
    LET result == lex_alphabet_items(text, alphabet, LexFresh)
    IN  IF cast_as = "" THEN [NotReturned EXCEPT !.pc = "generator",
                                                  !.value = [frame |-> LexFresh, got |-> <<>>]]
        ELSE IF cast_as \in {"tuple", "list"}
        THEN [NotReturned EXCEPT
                !.pc = "returned",
                !.value = [type |-> cast_as,
                           items |-> [ k \in 1..Len(result) |-> repr(result[k]) ]]]
        ELSE [NotReturned EXCEPT !.pc = "raised", !.error = "TypeError"]

\* the characters of the texts given to lex_alphabet_items
LexChars == {"a", "1", ","}

\* the longest text made of LexChars
MaxText == 4

RECURSIVE TextsOf(_)
TextsOf(n) ==
    IF n = 0 THEN {""}
    ELSE TextsOf(n - 1) \cup { t \o c : t \in { x \in TextsOf(n - 1) : Len(x) = n - 1 },
                                        c \in LexChars }

\* every text of at most MaxText characters, and the docstring's two
LexTexts == TextsOf(MaxText) \cup {"12, 34a 5b6 7", "one, two three, four"}

Alphabets == {Digits, LowerCase, "a1", ""}

\* cast_as: None ("") or a constructor
Constructors == {"", "tuple", "list", "int"}

\* the iterator of CaseParser(tag) before iter()
NoIterator == [pc |-> "idle", cursor |-> 0, made |-> <<>>, error |-> ""]

VARIABLES page, country_of_loss, order, run, tag, entry, soup, yale, descriptions_by_grade,
          call, returned

vars ==
    <<page, country_of_loss, order, run, tag, entry, soup, yale, descriptions_by_grade,
      call, returned>>

oryx_vars == <<page, country_of_loss, run>>

entry_vars == <<tag, entry>>

yale_vars == <<soup, yale, descriptions_by_grade>>

call_vars == <<call, returned>>

Invocations == DOMAIN run

\* parser.cases(country_of_loss)
Call(i) ==
    /\ run[i].pc = "absent"
    /\ run' = [run EXCEPT ![i] = Called]
    /\ UNCHANGED <<page, country_of_loss, order, entry_vars, yale_vars, call_vars>>

\* wrappers that keep their dictionaries at module level: a new invocation
\* starts from those of an invocation that has run
wrapper_shared(runs, i) ==
    LET started == { j \in DOMAIN runs \ {i} : runs[j].pc \notin {"absent", "fresh"} }
        j == CHOOSE x \in started : TRUE
    IN  IF started = {} THEN [model_counts |-> EmptyDict, reason_tracker |-> EmptyDict]
        ELSE [model_counts |-> runs[j].model_counts,
              reason_tracker |-> runs[j].reason_tracker]

\* the dictionaries that the wrappers of invocation i make when its first
\* next() enters them (model_counts = {} in autoid, reason_tracker = {} in
\* validate): new and empty, whatever the other invocations hold
wrapper_locals(runs, i) == [model_counts |-> EmptyDict, reason_tracker |-> EmptyDict]

\* next() on the generator of invocation i
Pull(i) ==
    /\ run[i].pc \in {"fresh", "suspended"}
    /\ LET r == IF run[i].pc = "fresh"
                THEN [run[i] EXCEPT !.model_counts = wrapper_locals(run, i).model_counts,
                                    !.reason_tracker = wrapper_locals(run, i).reason_tracker]
                ELSE run[i]
       IN  run' = [run EXCEPT ![i] = Resume(r, cases(page, country_of_loss, order.ids),
                                            order.rules)]
    /\ UNCHANGED <<page, country_of_loss, order, entry_vars, yale_vars, call_vars>>

\* iter(CaseParser(tag))
Iter ==
    /\ entry.pc = "idle"
    /\ entry' = [entry EXCEPT !.pc = "fresh"]
    /\ UNCHANGED <<tag, order, oryx_vars, yale_vars, call_vars>>

\* next() on the iterator of CaseParser(tag)
NextCase ==
    /\ entry.pc \in {"fresh", "suspended"}
    /\ LET events == CaseParser(tag, order.ids)
           at == [entry EXCEPT !.cursor = @ + 1]
       IN  entry' = IF entry.cursor = Len(events) THEN [entry EXCEPT !.pc = "done"]
                    ELSE IF events[entry.cursor + 1].kind = "raise"
                    THEN [at EXCEPT !.pc = "raised", !.error = events[entry.cursor + 1].what]
                    ELSE [at EXCEPT !.pc = "suspended",
                                    !.made = Append(@, events[entry.cursor + 1].case)]
    /\ UNCHANGED <<tag, order, oryx_vars, yale_vars, call_vars>>

\* the generator YaleParser.companies on the page, run by its consumer
SoupCompanies == YaleParser_companies(soup, sections(soup), 1, descriptions_by_grade)

\* YaleParser(soup).parse(), the one call made on the page
Parse ==
    /\ yale.pc = "idle"
    /\ yale' = parse(SoupCompanies.events)
    /\ descriptions_by_grade' = SoupCompanies.by_grade
    /\ UNCHANGED <<soup, order, oryx_vars, entry_vars, call_vars>>

\* parse_page(page), the one call made on the page
ParsePage ==
    /\ yale.pc = "idle"
    /\ yale' = parse_page(SoupCompanies.events, order.rules)
    /\ descriptions_by_grade' = SoupCompanies.by_grade
    /\ UNCHANGED <<soup, order, oryx_vars, entry_vars, call_vars>>

\* EquipmentModelParser(tag).country_of_production()
CallCountryOfProduction ==
    /\ call.fn = "country_of_production"
    /\ returned.pc = "idle"
    /\ LET got == country_of_production(call.arg)
       IN  returned' = IF Raises(got.events)
                       THEN [NotReturned EXCEPT !.pc = "raised",
                                                !.error = got.events[Len(got.events)].what]
                       ELSE [NotReturned EXCEPT !.pc = "returned", !.value = got.value,
                                                !.log = got.events]
    /\ UNCHANGED <<call, order, oryx_vars, entry_vars, yale_vars>>

\* the body of the loop of set_attachments' wrapper, on one record
CallSetAttachments ==
    /\ call.fn = "set_attachments"
    /\ returned.pc = "idle"
    /\ returned' = [NotReturned EXCEPT !.pc = "returned", !.value = set_attachments(call.arg)]
    /\ UNCHANGED <<call, order, oryx_vars, entry_vars, yale_vars>>

\* one turn of the loop of set_attachments' wrapper, on the one object that
\* upstream has made
CallSetAttachmentsWrapper ==
    /\ call.fn = "set_attachments.wrapper"
    /\ returned.pc = "idle"
    /\ returned' = [NotReturned EXCEPT !.pc = "returned",
                                       !.value = set_attachments_wrapper(<<call.arg>>, 1)]
    /\ UNCHANGED <<call, order, oryx_vars, entry_vars, yale_vars>>

\* lex_alphabet_items(text, alphabet, cast_as=...): the call enters
\* type_cast's wrapper
CallLexAlphabetItems ==
    /\ call.fn = "lex_alphabet_items"
    /\ returned.pc = "idle"
    /\ returned' = type_cast(call.arg.text, call.arg.alphabet, call.arg.cast_as)
    /\ UNCHANGED <<call, order, oryx_vars, entry_vars, yale_vars>>

\* next() on the generator that the call returned
NextLexItem ==
    /\ call.fn = "lex_alphabet_items"
    /\ returned.pc = "generator"
    /\ returned.value.frame.pc # "done"
    /\ LET step == lex_alphabet_items_next(call.arg.text, call.arg.alphabet,
                                           returned.value.frame)
       IN  returned' = [returned EXCEPT
                          !.value = [frame |-> step.frame,
                                     got |-> IF step.item.none THEN @.got
                                             ELSE Append(@.got, step.item.v)]]
    /\ UNCHANGED <<call, order, oryx_vars, entry_vars, yale_vars>>

\* CaseParser.statuses(text)
CallStatuses ==
    /\ call.fn = "statuses"
    /\ returned.pc = "idle"
    /\ returned' = [NotReturned EXCEPT !.pc = "returned", !.value = statuses(call.arg)]
    /\ UNCHANGED <<call, order, oryx_vars, entry_vars, yale_vars>>

\* series_splitter(text)
CallSeriesSplitter ==
    /\ call.fn = "series_splitter"
    /\ returned.pc = "idle"
    /\ returned' = [NotReturned EXCEPT !.pc = "returned", !.value = series_splitter(call.arg)]
    /\ UNCHANGED <<call, order, oryx_vars, entry_vars, yale_vars>>

\* multisplit(text, delimiters)
CallMultisplit ==
    /\ call.fn = "multisplit"
    /\ returned.pc = "idle"
    /\ returned' = [NotReturned EXCEPT
                      !.pc = "returned",
                      !.value = multisplit(call.arg.text, call.arg.delimiters)]
    /\ UNCHANGED <<call, order, oryx_vars, entry_vars, yale_vars>>

\* the pages whose article has n top-level <div>s, n in divs, the last of
\* them holding a data region of at most max elements
PagesOf(divs, max) ==
    { [ndivs |-> n, region |-> n, nodes |-> nodes] :
        n \in divs, nodes \in SeqsUpTo(NodeCatalog, max) }

Belligerents == {"russia", "ukraine", "belarus"}

\* no Oryx page is being parsed
NoOryx ==
    /\ page = [ndivs |-> 0, region |-> 0, nodes |-> <<>>]
    /\ country_of_loss = ""
    /\ run = <<>>

\* no single entry is being parsed
NoEntry == tag = A(None, "") /\ entry = NoIterator

\* no Yale page is being parsed
NoYale == soup = <<>> /\ yale = NotCalled /\ descriptions_by_grade = <<>>

\* no function is being called on its own
NoCall == call = [fn |-> "", arg |-> <<>>] /\ returned = NotReturned

\* one invocation on a Russia page
Init ==
    /\ page \in PagesOf({8}, MaxNodes)
    /\ country_of_loss = "russia"
    /\ order \in Orders
    /\ run = [ i \in {1} |-> Absent ]
    /\ NoEntry /\ NoYale /\ NoCall

\* the longest data region when the selector and the page's shape vary
MaxSelectNodes == 2

\* one invocation, every selector, on a page of one <div>, a Ukraine page
\* (two) or a Russia page (eight)
InitSelect ==
    /\ page \in PagesOf({1, 2, 8}, MaxSelectNodes)
    /\ country_of_loss \in Belligerents
    /\ order \in Orders
    /\ run = [ i \in {1} |-> Absent ]
    /\ NoEntry /\ NoYale /\ NoCall

\* the longest data region when two invocations run
MaxTwoNodes == 2

\* two invocations on the same parser
InitTwo ==
    /\ page \in PagesOf({8}, MaxTwoNodes)
    /\ country_of_loss = "russia"
    /\ order \in [ids : {"asc"}, rules : {default_rulebook}]
    /\ run = [ i \in {1, 2} |-> Absent ]
    /\ NoEntry /\ NoYale /\ NoCall

\* the nodes of the pages on which the counters of autoid are followed: two
\* headings, a list with a model with a clause, and a list with a model
\* with and without a clause
CounterCatalog ==
    {H3("Tanks (5, destroyed: 2)"), H3("Aircraft (1, destroyed: 1)"), ListA, ListC}

\* the longest data region of these pages
MaxCounterNodes == 3

\* one invocation on a Russia page made of the nodes of CounterCatalog
InitCounter ==
    /\ page \in { [ndivs |-> 8, region |-> 8, nodes |-> nodes] :
                    nodes \in SeqsUpTo(CounterCatalog, MaxCounterNodes) }
    /\ country_of_loss = "russia"
    /\ order \in [ids : {"asc", "desc"}, rules : {default_rulebook}]
    /\ run = [ i \in {1} |-> Absent ]
    /\ NoEntry /\ NoYale /\ NoCall

\* one entry (<a> tag) given to CaseParser
InitEntry ==
    /\ tag \in EntryTags
    /\ entry = NoIterator
    /\ order \in [ids : {"asc", "desc"}, rules : {default_rulebook}]
    /\ NoOryx /\ NoYale /\ NoCall

\* one Yale page; the class attribute is empty when the module is loaded
InitYale ==
    /\ soup \in Soups
    /\ yale = NotCalled
    /\ descriptions_by_grade = <<>>
    /\ order \in [ids : {"asc"},
                  rules : {company_default_rulebook, Reverse(company_default_rulebook)}]
    /\ NoOryx /\ NoEntry /\ NoCall

\* the calls of the functions checked on their own
Calls ==
    { [fn |-> "country_of_production", arg |-> t] : t \in FlagTags }
    \cup { [fn |-> "set_attachments", arg |-> c] : c \in ParsedCases }
    \cup { [fn |-> "set_attachments.wrapper", arg |-> c] : c \in ParsedCases }
    \cup { [fn |-> "statuses", arg |-> text] : text \in StatusTexts }
    \cup { [fn |-> "series_splitter", arg |-> text] :
             text \in SeriesTexts \cup { Oxford(q) : q \in Series }
                                 \cup { Plain(q) : q \in Series } }
    \cup { [fn |-> "multisplit", arg |-> [text |-> text, delimiters |-> delimiters]] :
             text \in MultiTexts, delimiters \in MultiDelimiters }

\* one function, called once on one input
InitCall ==
    /\ call \in Calls
    /\ returned = NotReturned
    /\ order \in [ids : {"asc"}, rules : {default_rulebook}]
    /\ NoOryx /\ NoEntry /\ NoYale

\* lex_alphabet_items called once, its generator consumed by next()
InitLex ==
    /\ call \in { [fn |-> "lex_alphabet_items",
                   arg |-> [text |-> text, alphabet |-> alphabet, cast_as |-> cast_as]] :
                    text \in LexTexts, alphabet \in Alphabets, cast_as \in Constructors }
    /\ returned = NotReturned
    /\ order \in [ids : {"asc"}, rules : {default_rulebook}]
    /\ NoOryx /\ NoEntry /\ NoYale

Next == (\E i \in Invocations : Call(i)) \/ (\E i \in Invocations : Pull(i))

NextEntry == Iter \/ NextCase

NextYale == Parse \/ ParsePage

NextCall ==
    \/ CallCountryOfProduction
    \/ CallSetAttachments
    \/ CallSetAttachmentsWrapper
    \/ CallStatuses
    \/ CallSeriesSplitter
    \/ CallMultisplit

NextLex == CallLexAlphabetItems \/ NextLexItem

Spec == Init /\ [][Next]_vars

SpecSelect == InitSelect /\ [][Next]_vars

SpecTwo == InitTwo /\ [][Next]_vars

SpecCounter == InitCounter /\ [][Next]_vars

SpecEntry == InitEntry /\ [][NextEntry]_vars

SpecYale == InitYale /\ [][NextYale]_vars

SpecCall == InitCall /\ [][NextCall]_vars

\* the caller of lex_alphabet_items consumes the generator: a for loop or a
\* constructor calls next() until StopIteration
SpecLex == InitLex /\ [][NextLex]_vars /\ WF_vars(NextLex)

(***************************************************************************)
(* Properties of the record stream of OryxParser.cases.                    *)
(***************************************************************************)
\* the events of the undecorated generator on the page
PageEvents == cases(page, country_of_loss, order.ids)

\* the model_case_id values of the records of out that carry model m, in order
IdsOfModel(out, m) ==
    LET same == SelectSeq(out, LAMBDA c : c.model = m)
    IN  [ k \in 1..Len(same) |-> same[k].model_case_id ]

\* C1: in the emitted stream, the model_case_id values of the records of one
\* model are 1, 2, ..., N in emission order, so every model that is present
\* has a record with id 1 (checked on finished streams)
C1_PerModelIdsAreOneToN ==
    \A i \in Invocations :
        run[i].pc = "done" =>
            \A k \in 1..Len(run[i].out) :
                LET got == IdsOfModel(run[i].out, run[i].out[k].model)
                IN  got = [ j \in 1..Len(got) |-> j ]

\* the accepted headings of the page, as positions in its data region
AcceptedHeadings == categories(page, country_of_loss).tags

\* whether the element after the <h3> at position j is a <ul>: the heading's
\* own item list
HasOwnList(nodes, j) == j < Len(nodes) /\ nodes[j + 1].tag = "ul"

Without(nodes, j) == SubSeq(nodes, 1, j - 1) \o SubSeq(nodes, j + 1, Len(nodes))

\* C2: when an accepted heading has no item list of its own, no emitted
\* record carries its label (no other accepted heading having that label), and
\* the emitted stream is the one of the page without that heading
C2_HeadingWithoutListIsIsolated ==
    \A i \in Invocations :
        run[i].pc = "done" =>
            \A n \in 1..Len(AcceptedHeadings) :
                LET j == AcceptedHeadings[n]
                    label == asset_category(page.nodes[j])
                    alone == \A m \in 1..Len(AcceptedHeadings) :
                                 m # n => asset_category(page.nodes[AcceptedHeadings[m]]) # label
                    rest == [page EXCEPT !.nodes = Without(@, j)]
                IN  ~HasOwnList(page.nodes, j) =>
                        /\ alone => \A k \in 1..Len(run[i].out) :
                                        run[i].out[k].asset_category # label
                        /\ run[i].out = Exhaust(Called, cases(rest, country_of_loss, order.ids),
                                                order.rules).out

\* the reasons of the rules of the rulebook that fail on case
FailReasons(case) ==
    { Rule(default_rulebook[n], case).v :
        n \in { m \in 1..Len(default_rulebook) : ~Rule(default_rulebook[m], case).none } }

\* how many of the first n events are yields
Yields(events, n) == Cardinality({ k \in 1..n : events[k].kind = "yield" })

Count(tracker, reason) == IF reason \in DOMAIN tracker THEN tracker[reason] ELSE 0

\* what a next() that takes the generator from r to r2 did to the records it
\* went through: up[a + 1], ..., up[b] of the stream up that reaches the filter
FilterEffect(r, r2, up, a, b) ==
    LET emitted == r2.pc = "suspended"
        dropped == IF emitted THEN (a + 1)..(b - 1) ELSE (a + 1)..b
        failed == [ k \in dropped |-> FailReasons(up[k]) ]
        reasons == (UNION { failed[k] : k \in dropped })
                   \cup (DOMAIN r2.reason_tracker \ {"total"})
        added == [ s \in reasons |->
                     Count(r2.reason_tracker, s) - Count(r.reason_tracker, s) ]
    IN  /\ \A k \in dropped : failed[k] # {}
        /\ emitted => FailReasons(up[b]) = {} /\ r2.out = Append(r.out, up[b])
        /\ ~emitted => r2.out = r.out
        /\ \A s \in reasons :
              /\ added[s] >= Cardinality({ k \in dropped : failed[k] = {s} })
              /\ added[s] <= Cardinality({ k \in dropped : s \in failed[k] })
        /\ SumOver(added, reasons) = Cardinality(dropped)

FilterStep(r, r2, events) ==
    /\ FilterEffect(r, r2, Corrected(events), Yields(events, r.cursor),
                    Yields(events, r2.cursor))
    /\ r2.pc = "raised" => events[r2.cursor].kind = "raise"

\* C3: a next() on the validated stream drops every record on which a rule
\* fails and adds one to one reason counter for it, the counter of the rule's
\* reason when exactly one rule fails; it emits a record on which no rule
\* fails as it received it; no rule failure leaves the filter as an exception
C3_FilterDropsCountsAndEmitsUnchanged ==
    [][\A i \in Invocations :
          (run[i].pc \in {"fresh", "suspended"} /\ run'[i] # run[i]) =>
              FilterStep(run[i], run'[i], PageEvents)]_vars

\* a finished stream that emitted a record and dropped one on which exactly
\* one rule fails, counted under that rule's reason
C3_Witness ==
    \E i \in Invocations :
        /\ run[i].pc = "done"
        /\ Len(run[i].out) >= 1
        /\ \E k \in 1..Len(Corrected(PageEvents)) :
              LET failed == FailReasons(Corrected(PageEvents)[k])
              IN  /\ Cardinality(failed) = 1
                  /\ \A s \in failed : Count(run[i].reason_tracker, s) >= 1

NonEmptyStr(o) == ~o.none /\ Len(o.v) > 0

LowerStr(o) == ~o.none /\ Lower(o.v) = o.v

NonEmptyTuple(t) == Len(t) >= 1 /\ \A j \in 1..Len(t) : Len(t[j]) >= 1

\* C4: every emitted record has model_case_id >= 1, a non-empty tuple of
\* non-empty statuses, non-empty confirmation_url, asset_category, model,
\* country_of_loss and country_of_production, the category and the two
\* countries in lowercase, and a cause that is None or a non-empty tuple of
\* non-empty strings
C4_EmittedRecordsAreWellFormed ==
    \A i \in Invocations : \A k \in 1..Len(run[i].out) :
        LET c == run[i].out[k]
        IN  /\ c.model_case_id >= 1
            /\ NonEmptyTuple(c.asset_status)
            /\ NonEmptyStr(c.confirmation_url)
            /\ NonEmptyStr(c.asset_category) /\ LowerStr(c.asset_category)
            /\ NonEmptyStr(c.model)
            /\ NonEmptyStr(c.country_of_loss) /\ LowerStr(c.country_of_loss)
            /\ NonEmptyStr(c.country_of_production) /\ LowerStr(c.country_of_production)
            /\ c.cause.none \/ NonEmptyTuple(c.cause.v)

\* a stream that emitted a record with a cause and dropped a record
C4_Witness ==
    \E i \in Invocations :
        /\ \E k \in 1..Len(run[i].out) : ~run[i].out[k].cause.none
        /\ DOMAIN run[i].reason_tracker # {}

\* the selector is not a belligerent, or the page has no <div> at the
\* selector's position
FatalInput ==
    \/ country_of_loss \notin {"russia", "ukraine"}
    \/ country_of_loss = "ukraine" /\ page.ndivs < 2
    \/ country_of_loss = "russia" /\ page.ndivs < 8

\* C5: with an unknown selector or without the positional data region, the
\* first next() raises to the caller and nothing has been emitted; no
\* invocation emits records and then raises
C5_FatalInputRaisesBeforeAnyRecord ==
    \A i \in Invocations :
        /\ (FatalInput /\ run[i].pc \notin {"absent", "fresh"}) =>
               run[i].pc = "raised" /\ run[i].out = <<>>
        /\ run[i].pc = "raised" => run[i].out = <<>>

\* a page with elements but without the eighth <div>, pulled for Russia
C5_Witness ==
    \E i \in Invocations :
        /\ run[i].pc = "raised"
        /\ run[i].error = "IndexError"
        /\ country_of_loss = "russia"
        /\ page.nodes # <<>>

\* the generator of one invocation alone on the page, pulled to exhaustion
Isolated == Exhaust(Called, PageEvents, order.rules)

IsPrefix(p, q) == Len(p) <= Len(q) /\ SubSeq(q, 1, Len(p)) = p

\* the generator r has emitted what the finished generator alone emits, as far
\* as it has come, and ends with its reason counts
AgreesWith(r, alone) ==
    /\ IsPrefix(r.out, alone.out)
    /\ r.pc = "done" =>
          /\ r.out = alone.out
          /\ r.reason_tracker = alone.reason_tracker

\* C10: each of two invocations on the same document, whatever the order of
\* their pulls, emits the records of an isolated invocation and ends with its
\* reason counts
C10_InvocationsDoNotShareState == \A i \in Invocations : AgreesWith(run[i], Isolated)

\* two invocations both suspended in the middle of the stream, at different
\* records, each with a counter standing
C10_Witness ==
    /\ Invocations = {1, 2}
    /\ run[1].pc = "suspended" /\ run[2].pc = "suspended"
    /\ Len(run[1].out) = 1 /\ Len(run[2].out) = 2
    /\ Len(Isolated.out) >= 3
    /\ DOMAIN Isolated.reason_tracker # {}

(***************************************************************************)
(* Properties of CaseParser on one entry.                                  *)
(***************************************************************************)
\* the fragment of the entry
Fragment == text_of(tag)

\* the clause that follows the first " with " and precedes the next comma,
\* when the fragment has both
WithClauses(text) ==
    LET withs == Occurrences(text, " with ")
        first == Min(withs)
        commas == { o \in Occurrences(text, ",") : o >= first + 6 }
    IN  IF withs = {} \/ commas = {} THEN {}
        ELSE {SubSeq(text, first + 6, Min(commas) - 1)}

\* C6: every record of an entry '{ids}, with {causes}, {statuses}' has as its
\* cause the series split of the clause between 'with' and the next comma
C6_WithClauseIsTheCause ==
    \A clause \in WithClauses(Fragment) : \A k \in 1..Len(entry.made) :
        entry.made[k].cause = Some(series_splitter(clause))

\* the text after the last "by " of the fragment
AfterLastBy(text) == Suffix(text, Max(Occurrences(text, "by ")) + 3)

\* C7 as stated: with ' by ' and without ' with ', the cause is the series
\* split of what follows the last 'by ', up to the end of the fragment; with
\* neither marker the cause is None; the records carry that cause (checked
\* once the entry's iterator has run)
C7_ByClauseIsTheCause ==
    entry.pc \in {"suspended", "done"} =>
    /\ (Contains(Fragment, " by ") /\ ~Contains(Fragment, " with ")) =>
           causes(Fragment) = Some(series_splitter(AfterLastBy(Fragment)))
    /\ (~Contains(Fragment, " by ") /\ ~Contains(Fragment, " with ")) =>
           causes(Fragment) = NoneT
    /\ \A k \in 1..Len(entry.made) : entry.made[k].cause = causes(Fragment)

\* the occurrences of "by " that at least one character follows
FollowedBys(text) == { o \in Occurrences(text, "by ") : o + 3 <= Len(text) }

\* C7, amended: with ' by ' and without ' with ', the cause is the series
\* split of what follows the last 'by ' that a character follows, and None
\* when no 'by ' is followed by a character; with neither marker the cause
\* is None; the records carry that cause (checked once the entry's iterator
\* has run)
C7_ByClauseFollowedIsTheCause ==
    entry.pc \in {"suspended", "done"} =>
    /\ (Contains(Fragment, " by ") /\ ~Contains(Fragment, " with ")) =>
           IF FollowedBys(Fragment) = {} THEN causes(Fragment) = NoneT
           ELSE causes(Fragment)
                = Some(series_splitter(Suffix(Fragment, Max(FollowedBys(Fragment)) + 3)))
    /\ (~Contains(Fragment, " by ") /\ ~Contains(Fragment, " with ")) =>
           causes(Fragment) = NoneT
    /\ \A k \in 1..Len(entry.made) : entry.made[k].cause = causes(Fragment)

\* an exhausted entry with records whose fragment holds 'by ' twice
C7_Witness ==
    /\ entry.pc = "done"
    /\ Len(entry.made) >= 2
    /\ ~Contains(Fragment, " with ")
    /\ Cardinality(Occurrences(Fragment, "by ")) >= 2
    /\ ~entry.made[1].cause.none

\* the leading numeric tokens of the items
RECURSIVE Leading(_)
Leading(items) ==
    IF Len(items) = 0 \/ ~IsNumeric(items[1]) THEN <<>>
    ELSE <<items[1]>> \o Leading(Tail(items))

\* the integers written in decimal digits among the leading numeric tokens
LeadingIntegers(items) ==
    { IntOf(t) : t \in { Leading(items)[n] : n \in { m \in 1..Len(Leading(items)) :
                                                      IsDecimal(Leading(items)[m]) } } }

\* C8: when the entry's iterator has ended, its records are one per distinct
\* integer among the leading numeric tokens, with equal statuses, cause and
\* URL and different raw ids; none when the first token is not numeric
C8_OneRecordPerLeadingInteger ==
    LET items == multisplit(Fragment, <<",", " and ", " or ">>)
        made == entry.made
    IN  entry.pc \in {"done", "raised"} =>
            /\ { made[k].model_case_id : k \in 1..Len(made) } = LeadingIntegers(items)
            /\ Len(made) = Cardinality(LeadingIntegers(items))
            /\ \A j, k \in 1..Len(made) :
                  /\ made[j].asset_status = made[k].asset_status
                  /\ made[j].cause = made[k].cause
                  /\ made[j].confirmation_url = made[k].confirmation_url
                  /\ j # k => made[j].model_case_id # made[k].model_case_id
            /\ ~IsNumeric(items[1]) => made = <<>>

(***************************************************************************)
(* Properties of the Yale parser.                                          *)
(***************************************************************************)
\* the k-th section of the page
Section(k) == soup[SECTION_IDS[k]]

\* malformed as the claim lists: no <section>, no layout region, no <p> in
\* the description, no table
MalformedSection(section) ==
    ~section.found \/ ~section.region \/ section.p.none \/ ~section.table

\* the companies of the well-formed sections from the k-th, in page order
RECURSIVE CompaniesOfWellFormed(_)
CompaniesOfWellFormed(k) ==
    IF k > Len(SECTION_IDS) THEN <<>>
    ELSE (IF Section(k) = WellFormed(k)
          THEN LET made == StatusSection_companies(Section(k), StatusSection(Section(k)))
               IN  [ n \in 1..Len(made) |-> made[n].company ]
          ELSE <<>>)
         \o CompaniesOfWellFormed(k + 1)

\* C9: on a page whose sections are well-formed or malformed in one of these
\* ways, parse and parse_page return, and return the companies of the
\* well-formed sections
C9_MalformedSectionIsIsolated ==
    (/\ yale.pc # "idle"
     /\ \A k \in 1..Len(SECTION_IDS) :
           Section(k) = WellFormed(k) \/ MalformedSection(Section(k))) =>
        /\ yale.pc = "returned"
        /\ yale.result = CompaniesOfWellFormed(1)

(***************************************************************************)
(* Properties of the validation filter's summary.                          *)
(***************************************************************************)
\* the summary lines of a generator's log
Summaries(r) == SelectSeq(r.log, LAMBDA l : l.what = "Validation Tracker")

\* how many failed validations the generator logged with reason s
Debugs(r, s) ==
    Cardinality({ k \in 1..Len(r.log) : r.log[k].level = "debug" /\ r.log[k].what = s })

\* the reasons of the failed validations the generator logged
DebugReasons(r) ==
    { r.log[k].what : k \in { n \in 1..Len(r.log) : r.log[n].level = "debug" } }

\* what the summary of the finished generator r must be, up being the stream
\* that reached the filter: the records of up that r did not emit were dropped
SummaryOf(r, up) ==
    LET dropped == Len(up) - Len(r.out)
        sums == Summaries(r)
        tracker == sums[1].tracker
        reasons == DOMAIN tracker \ {"total"}
    IN  /\ Len(sums) = IF dropped > 0 THEN 1 ELSE 0
        /\ dropped > 0 =>
              /\ r.log[Len(r.log)] = sums[1]
              /\ sums[1].level = "error"
              /\ "total" \in DOMAIN tracker
              /\ reasons = DebugReasons(r)
              /\ \A s \in reasons :
                    /\ tracker[s] = Debugs(r, s)
                    /\ \E k \in 1..Len(up) : s \in FailReasons(up[k])
              /\ tracker["total"] = dropped
              /\ tracker["total"] = SumOver(tracker, reasons)

\* C11: a generator pulled to exhaustion has logged one summary line when at
\* least one record was dropped, its last line, listing every distinct
\* failure reason with its count and a total that is the sum of the counts
\* and the number of dropped records; it has logged none when nothing was
\* dropped, and no generator logs one before it is exhausted
C11_SummaryOnceAtExhaustion ==
    \A i \in Invocations :
        /\ run[i].pc # "done" => Summaries(run[i]) = <<>>
        /\ run[i].pc = "done" =>
               SummaryOf(run[i], Corrected(PageEvents))

\* a finished stream that emitted a record and whose summary lists two
\* reasons and a total of three or more
C11_Witness ==
    \E i \in Invocations :
        /\ run[i].pc = "done"
        /\ Len(run[i].out) >= 1
        /\ Len(Summaries(run[i])) = 1
        /\ Cardinality(DOMAIN Summaries(run[i])[1].tracker) >= 3
        /\ Summaries(run[i])[1].tracker["total"] >= 3

\* a finished stream on which no record was dropped, after records passed
C11_WitnessNothingFailed ==
    \E i \in Invocations :
        /\ run[i].pc = "done"
        /\ Len(run[i].out) >= 2
        /\ Summaries(run[i]) = <<>>

(***************************************************************************)
(* Properties of the functions called on their own.                        *)
(***************************************************************************)
\* C12: on a flag URL '<dir>/Flag_of_[the_]<country>[_qualifier].svg/<file>'
\* country_of_production returns the country with its underscores replaced by
\* spaces, in lowercase ('soviet union' for the flag of the Soviet Union); on
\* a URL without the marker it returns None and raises nothing
C12_CountryOfTheFlag ==
    (call.fn = "country_of_production" /\ returned.pc # "idle" /\ ~call.arg.src.none) =>
        /\ returned.pc = "returned"
        /\ \A the \in Articles, country \in Countries, qualifier \in Qualifiers :
              call.arg.src.v = FlagUrl(the, country, qualifier) =>
                  returned.value = Some(Lower(Replace(country, "_", " ")))
        /\ call.arg.src.v = FlagUrl("the_", "Soviet_Union", "") =>
              returned.value = Some("soviet union")
        /\ call.arg.src.v \in Unmarked => returned.value = None

\* C13: set_attachments turns a record whose model holds ' with ' after a
\* base into one whose model is the text before the first ' with ' and whose
\* attachment is all the text after it, the other fields unchanged; it leaves
\* any other record as it is, attachment None
C13_AttachmentIsSplitOff ==
    (call.fn = "set_attachments" /\ returned.pc = "returned") =>
        LET text == call.arg.model.v
            withs == Occurrences(text, " with ")
        IN  IF withs # {}
            THEN returned.value
                 = [call.arg EXCEPT !.model = Some(SubSeq(text, 1, Min(withs) - 1)),
                                    !.attachment = Some(Suffix(text, Min(withs) + 6))]
            ELSE returned.value = call.arg /\ returned.value.attachment = None

\* a record whose model holds ' with ' twice, split at the first
C13_Witness ==
    /\ call.fn = "set_attachments"
    /\ returned.pc = "returned"
    /\ Cardinality(Occurrences(call.arg.model.v, " with ")) = 2
    /\ Contains(returned.value.attachment.v, " with ")
    /\ ~call.arg.cause.none

\* the place of a word in STATUS_OPTIONS
StatusIndex(w) == Min({ n \in 1..Len(STATUS_OPTIONS) : STATUS_OPTIONS[n] = w })

\* C14: statuses returns the words of STATUS_OPTIONS that occur in the
\* fragment, each once, in the order of STATUS_OPTIONS
C14_StatusesInCanonicalOrder ==
    (call.fn = "statuses" /\ returned.pc = "returned") =>
        LET got == returned.value
        IN  /\ { got[k] : k \in 1..Len(got) }
               = { STATUS_OPTIONS[n] : n \in { m \in 1..Len(STATUS_OPTIONS) :
                                                Contains(call.arg, STATUS_OPTIONS[m]) } }
            /\ \A j, k \in 1..Len(got) : j < k => StatusIndex(got[j]) < StatusIndex(got[k])

\* a fragment that names two statuses in the reverse of their order in
\* STATUS_OPTIONS
C14_Witness ==
    /\ call.fn = "statuses"
    /\ returned.pc = "returned"
    /\ \E j, k \in 1..Len(returned.value) :
          /\ j < k
          /\ Min(Occurrences(call.arg, returned.value[k]))
             < Min(Occurrences(call.arg, returned.value[j]))

\* C15: a series of n >= 1 items written with ', ' between the items and the
\* last one introduced by ', and ' or by ' and ' is split into the tuple of
\* its items, the same for both spellings; one item alone gives the tuple of
\* that item
C15_SeriesSplitsIntoItsItems ==
    (call.fn = "series_splitter" /\ returned.pc = "returned") =>
        \A q \in Series :
            call.arg \in {Oxford(q), Plain(q)} => returned.value = q

\* a series of three items written with the Oxford comma
C15_Witness ==
    /\ call.fn = "series_splitter"
    /\ returned.pc = "returned"
    /\ \E q \in Series : Len(q) = 3 /\ call.arg = Oxford(q) /\ call.arg # Plain(q)
    /\ Len(returned.value) = 3

\* the pieces of text split on the first delimiter, every piece split on
\* the remaining ones, and trimmed when no delimiter remains
RECURSIVE Pieces(_, _)
RECURSIVE PiecesOfEach(_, _)
PiecesOfEach(parts, delimiters) ==
    IF Len(parts) = 0 THEN <<>>
    ELSE Pieces(parts[1], delimiters) \o PiecesOfEach(Tail(parts), delimiters)

Pieces(text, delimiters) ==
    IF Len(delimiters) = 0 THEN <<Strip(text)>>
    ELSE PiecesOfEach(Split(text, delimiters[1]), Tail(delimiters))

\* whether the pieces occur in text from position from on, one after the
\* other and in their order, at least one character between two of them
RECURSIVE InOrder(_, _, _)
InOrder(pieces, text, from) ==
    IF Len(pieces) = 0 THEN TRUE
    ELSE LET occ == { o \in Occurrences(text, pieces[1]) : o >= from }
         IN  /\ occ # {}
             /\ InOrder(Tail(pieces), text, Min(occ) + Len(pieces[1]) + 1)

\* C16: multisplit returns the trimmed pieces of text split on the first
\* delimiter and then on each of the remaining ones, in their order in text;
\* no piece holds a delimiter; 'a, b and c' with (',', ' and ') gives
\* ('a', 'b', 'c')
C16_MultisplitKeepsOrder ==
    (call.fn = "multisplit" /\ returned.pc = "returned") =>
        LET got == returned.value
            text == call.arg.text
            delimiters == call.arg.delimiters
        IN  /\ got = Pieces(text, delimiters)
            /\ InOrder(got, text, 1)
            /\ \A k \in 1..Len(got) :
                  /\ Strip(got[k]) = got[k]
                  /\ \A d \in 1..Len(delimiters) : ~Contains(got[k], delimiters[d])
            /\ (text = "a, b and c" /\ delimiters = <<",", " and ">>) =>
                  got = <<"a", "b", "c">>

\* a text split on three delimiters into four pieces
C16_Witness ==
    /\ call.fn = "multisplit"
    /\ returned.pc = "returned"
    /\ Len(call.arg.delimiters) = 3
    /\ Len(returned.value) = 4
    /\ Contains(call.arg.text, " or ") /\ Contains(call.arg.text, " and ")

\* the tokens of the comma-separated split of a series
CommaTokens(text) == StripAll(Split(text, ", "))

\* the conjunctions that apply to a token: it starts with 'conjunction ' or
\* holds ' conjunction '
Applying(token) ==
    { k \in 1..Len(CONJUNCTIONS) :
        \/ StartsWith(token, CONJUNCTIONS[k] \o " ")
        \/ Contains(token, " " \o CONJUNCTIONS[k] \o " ") }

\* C19 as stated: the tokens before the last one are those of the
\* comma-separated split, and the last one is kept, or stripped of a leading
\* conjunction, or split into exactly two tokens at the first conjunction
\* that applies: the result has at most one token more
C19_OneConjunctionTwoTokens ==
    (call.fn = "series_splitter" /\ returned.pc = "returned") =>
        LET got == returned.value
            tokens == CommaTokens(call.arg)
            n == Len(tokens)
        IN  /\ Len(got) \in {n, n + 1}
            /\ SubSeq(got, 1, n - 1) = SubSeq(tokens, 1, n - 1)

\* C19, amended: the tokens before the last one are those of the
\* comma-separated split; when no conjunction applies to the last token it is
\* kept; otherwise the first conjunction that applies is the only one
\* resolved: a leading 'conjunction ' is stripped from the token, or else the
\* token is split at every ' conjunction ' it holds, into two tokens or more,
\* which hold that conjunction no longer and may hold the other ones
C19_OneConjunctionWordResolved ==
    (call.fn = "series_splitter" /\ returned.pc = "returned") =>
        LET got == returned.value
            tokens == CommaTokens(call.arg)
            n == Len(tokens)
            last == tokens[n]
            tail == SubSeq(got, n, Len(got))
            c == CONJUNCTIONS[Min(Applying(last))]
        IN  /\ Len(got) >= n
            /\ SubSeq(got, 1, n - 1) = SubSeq(tokens, 1, n - 1)
            /\ Applying(last) = {} => tail = <<last>>
            /\ Applying(last) # {} =>
                  IF StartsWith(last, c \o " ")
                  THEN tail = <<Suffix(last, Len(c) + 2)>>
                  ELSE /\ Len(tail) >= 2
                       /\ Len(tail) = Len(Split(last, " " \o c \o " "))
                       /\ \A k \in 1..Len(tail) :
                             /\ ~Contains(tail[k], " " \o c \o " ")
                             /\ tail[k] = Strip(Split(last, " " \o c \o " ")[k])

\* a series whose last token holds one conjunction twice and is split into
\* three tokens
C19_Witness ==
    /\ call.fn = "series_splitter"
    /\ returned.pc = "returned"
    /\ Len(CommaTokens(call.arg)) = 2
    /\ Len(returned.value) = 4

(***************************************************************************)
(* Properties of the parser chain below the category.                      *)
(***************************************************************************)
\* extracting the fields of the model item raises: its label does not match
\* model_pattern, or it has no <img>, or its <img> has no src
FailingItem(li) ==
    \/ model_pattern(SplitOnce(li.text, ":")[1]) = {}
    \/ ~li.img
    \/ li.src.none

\* extracting the ids of the entry raises
FailingEntry(a) == ids_raises(multisplit(text_of(a), <<",", " and ", " or ">>))

Remove(q, k) == SubSeq(q, 1, k - 1) \o SubSeq(q, k + 1, Len(q))

\* the data region without the k-th <li> of the <ul> at position j
WithoutItem(nodes, j, k) == [nodes EXCEPT ![j].items = Remove(@, k)]

\* the data region without the n-th <a> of that <li>
WithoutEntry(nodes, j, k, n) ==
    [nodes EXCEPT ![j].items[k] =
        Li(SplitOnce(@.text, ": ")[1], @.img, @.src, Remove(@.anchors, n))]

\* how many categories of the page read the <ul> at position j
Visits(nodes, j) ==
    Cardinality({ n \in 1..Len(AcceptedHeadings) :
                    /\ ~asset_category(nodes[AcceptedHeadings[n]]).none
                    /\ find_next_ul(nodes, AcceptedHeadings[n]) = j })

\* how many diagnostics of the parser chain the generator logged for a node
\* of kind what
Diagnostics(r, what) ==
    Cardinality({ k \in 1..Len(r.log) : r.log[k].level = "error" /\ r.log[k].what = what })

\* the finished generator r emitted the records of the page whose data region
\* is nodes, and logged times diagnostics of kind what more
SkippedOnly(r, other, what, times) ==
    /\ r.out = other.out
    /\ Diagnostics(r, what) = Diagnostics(other, what) + times

\* the generator of one invocation alone on the page with the data region
\* nodes, pulled to exhaustion
IsolatedOn(nodes) ==
    Exhaust(Called, cases([page EXCEPT !.nodes = nodes], country_of_loss, order.ids),
            order.rules)

\* C17: no generator raises because of a model item or an entry; a finished
\* generator has emitted, for every model item whose fields cannot be
\* extracted and for every entry whose ids cannot be extracted, the records
\* of the page without that node, and has logged one diagnostic for each
\* time a category read the node
C17_FailingNodeIsSkipped ==
    \A i \in Invocations :
        /\ run[i].pc # "raised"
        /\ run[i].pc = "done" =>
              \A j \in { x \in 1..Len(page.nodes) : page.nodes[x].tag = "ul" } :
                  \A k \in 1..Len(page.nodes[j].items) :
                      LET li == page.nodes[j].items[k]
                      IN  IF FailingItem(li)
                          THEN SkippedOnly(run[i], IsolatedOn(WithoutItem(page.nodes, j, k)),
                                           "li", Visits(page.nodes, j))
                          ELSE \A n \in 1..Len(li.anchors) :
                                   FailingEntry(li.anchors[n]) =>
                                       SkippedOnly(run[i],
                                                   IsolatedOn(WithoutEntry(page.nodes, j, k, n)),
                                                   "a", Visits(page.nodes, j))

\* a finished stream of a page with a model item and an entry that fail, read
\* by a category, with records of their siblings emitted
C17_Witness ==
    \E i \in Invocations :
        /\ run[i].pc = "done"
        /\ Diagnostics(run[i], "li") >= 1
        /\ Diagnostics(run[i], "a") >= 1
        /\ Len(run[i].out) >= 1

(***************************************************************************)
(* Properties of the rulebook and of the state a run leaves behind.        *)
(***************************************************************************)
\* C18: whatever the order in which the rulebook iterates its rules, a
\* finished stream has emitted the same records and reports the same count
\* for every failure reason
C18_RuleOrderDoesNotMatter ==
    \A i \in Invocations :
        run[i].pc = "done" =>
            \A rules \in RuleOrders :
                LET other == Exhaust(Called, PageEvents, rules)
                IN  /\ other.out = run[i].out
                    /\ other.reason_tracker = run[i].reason_tracker

\* C20: after a complete Yale run (parse or parse_page has returned or
\* raised) the class attribute StatusSection.descriptions_by_grade holds what
\* it held before the run
C20_RunLeavesNoProcessWideState ==
    yale.pc # "idle" => descriptions_by_grade = <<>>

(***************************************************************************)
(* Properties of the correction stages on objects.                         *)
(***************************************************************************)
\* C21: set_attachments is copy-on-write: after the stage the object it
\* received has every field it had before, model and attachment among them,
\* and when the descriptor is rewritten the yielded object is another one
C21_ReceivedObjectIsNotModified ==
    (call.fn = "set_attachments.wrapper" /\ returned.pc = "returned") =>
        LET heap == returned.value.heap
            yielded == returned.value.yielded
            rewritten == \E p \in Occurrences(call.arg.model.v, " with ") : p >= 2
        IN  /\ heap[1] = call.arg
            /\ heap[1].model = call.arg.model
            /\ heap[1].attachment = call.arg.attachment
            /\ rewritten => /\ yielded # 1
                            /\ heap[yielded].model # call.arg.model
                            /\ ~heap[yielded].attachment.none
            /\ ~rewritten => yielded = 1

\* a record with a clause: the yielded object is the second of the heap
C21_Witness ==
    /\ call.fn = "set_attachments.wrapper"
    /\ returned.pc = "returned"
    /\ call.arg.model = Some("T-90 with ERA")
    /\ returned.value.yielded = 2
    /\ returned.value.heap[2].model = Some("T-90")
    /\ returned.value.heap[1].model = Some("T-90 with ERA")

(***************************************************************************)
(* Properties of the generator chain of OryxParser.cases.                  *)
(***************************************************************************)
\* the records that validate's wrapper has counted as failed
Dropped(r) == SumOver(r.reason_tracker, DOMAIN r.reason_tracker \ {"total"})

\* the records that validate's wrapper has obtained from autoid: each was
\* either emitted or counted
Requested(r) == Len(r.out) + Dropped(r)

\* the generator state r has made the first made records of up, the
\* stream at the output of autoid, and no more; events are those of the
\* undecorated generator
MadeOnDemand(r, events, up, made) ==
    /\ r.pc \in {"absent", "fresh"} => r.cursor = 0 /\ r.model_counts = EmptyDict
    /\ made = Requested(r)
    /\ r.pc = "suspended" =>
          /\ events[r.cursor].kind = "yield"
          /\ r.out[Len(r.out)] = up[made]
          /\ r.pending = up[made].model
          /\ r.model_counts[up[made].model.v] = up[made].model_case_id
    /\ r.pc # "suspended" => r.pending.none
    /\ DOMAIN r.model_counts = { up[k].model.v : k \in 1..made }
    /\ \A m \in DOMAIN r.model_counts :
          r.model_counts[m] = Cardinality({ k \in 1..made : up[k].model = Some(m) })
                              + (IF r.pending = Some(m) THEN 0 ELSE 1)

MadeOnDemandOf(events, up) ==
    \A i \in Invocations : MadeOnDemand(run[i], events, up, Yields(events, run[i].cursor))

AllMadeOnDemand(events) == MadeOnDemandOf(events, Corrected(events))

\* C22: at every moment the number of Case records that the undecorated
\* generator has made is the number of records that the correction and
\* validation chain has obtained so far, nothing is made before the first
\* pull, the record emitted last is the one made last, and the counter of a
\* record's model is advanced only when the generator is resumed: while the
\* generator is suspended on a record the counter of its model still has
\* the record's id
C22_RecordsAreMadeOnDemand == AllMadeOnDemand(PageEvents)

\* two invocations on one page, the first suspended on its third record
\* after a dropped one, the second suspended on its first: records remain
\* to be made in both
C22_Witness ==
    /\ DOMAIN run = {1, 2}
    /\ run[1].pc = "suspended" /\ run[2].pc = "suspended"
    /\ Len(run[1].out) = 2 /\ Dropped(run[1]) = 1
    /\ Len(run[2].out) = 1 /\ Dropped(run[2]) = 0
    /\ Yields(PageEvents, Len(PageEvents)) > 3

\* what the first rule that fails on case raises, the rules taken in the
\* rulebook's iteration order; None when no rule fails
FirstFailure(rules, case) ==
    LET failing == { j \in 1..Len(rules) : ~Rule(rules[j], case).none }
    IN  IF failing = {} THEN None ELSE Rule(rules[Min(failing)], case)

\* the generator state r has emitted or counted each record of up, the
\* records obtained so far, first[k] being what the first failing rule
\* raises on up[k]
Conserved(r, up, first) ==
    LET reasons == (DOMAIN r.reason_tracker \ {"total"})
                   \cup { first[k].v : k \in { j \in 1..Len(up) : ~first[j].none } }
    IN  /\ r.out = SelectSeq(up, LAMBDA c : FirstFailure(order.rules, c).none)
        /\ Len(r.out) + Dropped(r) = Len(up)
        /\ \A s \in reasons :
              Count(r.reason_tracker, s)
              = Cardinality({ k \in 1..Len(up) : first[k] = Some(s) })
        /\ r.pc = "done" => r.reason_tracker["total"] = Len(up) - Len(r.out)

ConservedOn(r, up) ==
    Conserved(r, up, [ k \in 1..Len(up) |-> FirstFailure(order.rules, up[k]) ])

ConservedOf(events, up) ==
    \A i \in Invocations :
        ConservedOn(run[i], SubSeq(up, 1, Yields(events, run[i].cursor)))

AllConserved(events) == ConservedOf(events, Corrected(events))

\* C23: at every moment the emitted records are, in order, the records
\* obtained from upstream on which no rule fails, emitted + counted =
\* obtained, and every reason's counter is the number of obtained records
\* whose first failing rule, in the rulebook's iteration order, raises that
\* reason: a record that fails several rules is counted once; at the end
\* the total is the number of the records counted
C23_FilterConservesTheStream == AllConserved(PageEvents)

\* a finished stream under the reverse rule order that emitted a record and
\* dropped one on which two rules fail, counted under the reason of the one
\* that comes first in that order and not under the other reason
C23_Witness ==
    \E i \in Invocations :
        /\ run[i].pc = "done"
        /\ Len(run[i].out) >= 1
        /\ order.rules = Reverse(default_rulebook)
        /\ \E k \in 1..Len(Corrected(PageEvents)) :
              LET c == Corrected(PageEvents)[k]
              IN  /\ Cardinality(FailReasons(c)) >= 2
                  /\ Count(run[i].reason_tracker, FirstFailure(order.rules, c).v) >= 1
                  /\ FirstFailure(order.rules, c) # FirstFailure(default_rulebook, c)
                  /\ Count(run[i].reason_tracker, FirstFailure(default_rulebook, c).v) = 0

\* the base of a descriptor: the text before its first ' with ' that has a
\* character before it, the whole descriptor when there is none
Base(text) ==
    LET withs == { p \in Occurrences(text, " with ") : p >= 2 }
    IN  IF withs = {} THEN text ELSE SubSeq(text, 1, Min(withs) - 1)

\* the records up at the output of autoid, made from the records raw with
\* the bases base, are numbered by base; r is the generator's state
NumberedByBase(r, raw, up, base) ==
    /\ Len(up) = Len(raw)
    /\ \A k \in 1..Len(up) :
          /\ up[k].model = Some(base[k])
          /\ up[k].model_case_id = Cardinality({ j \in 1..k : base[j] = base[k] })
    /\ \A k \in 1..Len(r.out) : \E j \in 1..Len(up) : r.out[k] = up[j]
    /\ \A m \in DOMAIN r.model_counts :
          r.model_counts[m] = Cardinality({ j \in 1..Len(up) : base[j] = m }) + 1

BasesOf(r, raw, up) ==
    NumberedByBase(r, raw, up, [ k \in 1..Len(raw) |-> Base(raw[k].model.v) ])

AllNumberedByBase(r, events) == BasesOf(r, CasesOf(events), Corrected(events))

\* C24: at the output of autoid every record carries the base of its
\* descriptor as model and, as model_case_id, its rank among the records
\* with the same base, whatever their clause and category: the ids of one
\* base are 1..N in emission order; the emitted records are records of that
\* output and the counter of a base ends at N + 1 (checked on finished
\* streams)
C24_OneCounterPerBaseModel ==
    \A i \in Invocations : run[i].pc = "done" => AllNumberedByBase(run[i], PageEvents)

\* a finished stream in which a list is read under two categories: the
\* record with a clause of the second reading has id 6, after the five
\* records of its base, with and without clause, of both categories
C24_Witness ==
    \E i \in Invocations :
        /\ run[i].pc = "done"
        /\ Len(run[i].out) = 6
        /\ run[i].out[3].attachment = Some("R-60") /\ run[i].out[3].model_case_id = 3
        /\ run[i].out[4].attachment.none /\ run[i].out[4].model_case_id = 4
        /\ run[i].out[6].attachment = Some("R-60") /\ run[i].out[6].model_case_id = 6
        /\ run[i].out[3].asset_category # run[i].out[6].asset_category
        /\ \A k \in 1..6 : run[i].out[k].model = Some("Su-25")

\* a model item with a model and a flag whose URL does not match the
\* pattern: its country of production cannot be inferred
Uninferred(li) ==
    /\ model_pattern(SplitOnce(li.text, ":")[1]) # {}
    /\ li.img /\ ~li.src.none
    /\ national_flag_url_pattern(li.src.v).none

\* the records of up that come from the entries of li: the confirmation
\* URLs of the page's entries differ from one entry to the other
RecordsOf(li, up) ==
    { k \in 1..Len(up) :
        \E n \in 1..Len(li.anchors) :
            ~li.anchors[n].href.none /\ up[k].confirmation_url = li.anchors[n].href }

NotAString == "Case.country_of_production is not a string"

\* the records of li, an item of a list read visits times, in the finished
\* generator r, up being the stream that reached the filter
UninferredIsDropped(r, li, up, visits) ==
    LET mine == RecordsOf(li, up)
        first == [ k \in mine |-> FirstFailure(order.rules, up[k]) ]
    IN  /\ visits >= 1 => Cardinality(mine) >= visits
        /\ \A k \in mine :
              /\ up[k].country_of_production.none
              /\ ~first[k].none
              /\ \A n \in 1..Len(r.out) : r.out[n] # up[k]
        /\ \A n \in 1..Len(r.out) :
              r.out[n].confirmation_url \notin { up[k].confirmation_url : k \in mine }
        /\ \A s \in { first[k].v : k \in mine } :
              Count(r.reason_tracker, s) >= Cardinality({ k \in mine : first[k] = Some(s) })
        /\ Count(r.reason_tracker, NotAString)
              >= Cardinality({ k \in mine : FailReasons(up[k]) = {NotAString} })
        /\ Dropped(r) >= Cardinality(mine)

\* C25: no emitted record has country_of_production None, and on a
\* finished stream a model item whose flag URL does not match the pattern
\* has no record in the output: each of its records reaches the filter
\* with country_of_production None, fails a rule and is counted once, under
\* the reason of its first failing rule
C25_UninferredCountryGivesNoRecord ==
    \A i \in Invocations :
        /\ \A n \in 1..Len(run[i].out) : ~run[i].out[n].country_of_production.none
        /\ run[i].pc = "done" =>
              \A j \in { x \in 1..Len(page.nodes) : page.nodes[x].tag = "ul" } :
                  \A k \in 1..Len(page.nodes[j].items) :
                      Uninferred(page.nodes[j].items[k]) =>
                          UninferredIsDropped(run[i], page.nodes[j].items[k],
                                              Corrected(PageEvents), Visits(page.nodes, j))

\* a finished stream on a page whose list has an item with a flag that is
\* not a national flag: its record was counted under the country's reason
\* and other records were emitted
C25_Witness ==
    \E i \in Invocations :
        /\ run[i].pc = "done"
        /\ Len(run[i].out) >= 1
        /\ Count(run[i].reason_tracker, NotAString) = 1
        /\ \E j \in 1..Len(page.nodes) :
              /\ page.nodes[j].tag = "ul"
              /\ Visits(page.nodes, j) = 1
              /\ \E k \in 1..Len(page.nodes[j].items) :
                    /\ Uninferred(page.nodes[j].items[k])
                    /\ RecordsOf(page.nodes[j].items[k], Corrected(PageEvents)) # {}

(***************************************************************************)
(* Properties of lex_alphabet_items.                                       *)
(***************************************************************************)
\* whether the i-th character of text, counted from 1, is in alphabet
Allowed(text, alphabet, i) == i \in 1..Len(text) /\ Contains(alphabet, Char(text, i))

\* the maximal runs of allowed characters of text, as <<first, last>>
RunsOf(text, alphabet) ==
    { <<i, j>> \in (1..Len(text)) \X (1..Len(text)) :
        /\ i <= j
        /\ \A k \in i..j : Allowed(text, alphabet, k)
        /\ ~Allowed(text, alphabet, i - 1)
        /\ ~Allowed(text, alphabet, j + 1) }

\* the runs, a set of <<first, last>>, from left to right
InTextOrder(text, runs) ==
    [ k \in 1..Cardinality(runs) |->
        LET x == CHOOSE r \in runs : Cardinality({ y \in runs : y[1] < r[1] }) = k - 1
        IN  SubSeq(text, x[1], x[2]) ]

\* the maximal runs from left to right
MaximalRuns(text, alphabet) == InTextOrder(text, RunsOf(text, alphabet))

\* the generator has ended
LexFinished ==
    \/ returned.pc \in {"returned", "raised"}
    \/ returned.pc = "generator" /\ returned.value.frame.pc = "done"

\* got, what next() has yielded so far, is the start of runs, all of runs
\* when the generator has ended
YieldedOf(got, runs, frame, text, alphabet) ==
    /\ Len(got) <= Len(runs)
    /\ \A k \in 1..Len(got) :
          /\ got[k] = runs[k]
          /\ Len(got[k]) >= 1
          /\ \A n \in 1..Len(got[k]) : Contains(alphabet, Char(got[k], n))
    /\ frame.pc = "done" => got = runs
    /\ frame.pc = "suspended" =>
          /\ Len(got) >= 1
          /\ got[Len(got)] = SubSeq(text, frame.a + 1, frame.b)

LexYieldsRuns ==
    returned.pc = "generator" =>
        YieldedOf(returned.value.got, MaximalRuns(call.arg.text, call.arg.alphabet),
                  returned.value.frame, call.arg.text, call.arg.alphabet)

\* C26: lex_alphabet_items(text, alphabet) ends for every text, and the
\* items it yields are, from left to right, the maximal runs of characters
\* of text that are in alphabet: none is empty, none holds a character that
\* is not in alphabet, and at the end none is missing
C26_LexYieldsTheMaximalRuns == [](LexYieldsRuns) /\ <>(LexFinished)

\* the docstring's second example, consumed to the end
C26_Witness ==
    /\ call.fn = "lex_alphabet_items"
    /\ call.arg.text = "12, 34a 5b6 7" /\ call.arg.alphabet = Digits
    /\ returned.pc = "generator" /\ returned.value.frame.pc = "done"
    /\ returned.value.got = <<"12", "34", "5", "6", "7">>

\* the call was made with a constructor and has ended
CastCalled ==
    /\ call.fn = "lex_alphabet_items"
    /\ call.arg.cast_as # ""
    /\ returned.pc # "idle"

\* the result is the runs, each converted by the constructor
EachRunCast(result, runs, cast_as) ==
    /\ result.pc = "returned"
    /\ result.value.items = [ k \in 1..Len(runs) |-> ReprOfCast(cast_as, runs[k]) ]

\* C27 as stated: with cast_as the constructor is applied to each run, so
\* the result is the sequence of the converted runs (runs of digits each
\* cast to an integer); a run that int does not take is left out of the
\* statement
C27_ConstructorTakesEachRun ==
    CastCalled =>
        \/ /\ call.arg.cast_as = "int"
           /\ \E n \in 1..Len(call.arg.text) :
                 /\ Contains(call.arg.alphabet, Char(call.arg.text, n))
                 /\ ~Contains(Digits, Char(call.arg.text, n))
        \/ EachRunCast(returned, MaximalRuns(call.arg.text, call.arg.alphabet),
                       call.arg.cast_as)

\* the result is the constructor applied to the generator: a collection of
\* the runs as they are, or TypeError
WholeCast(result, runs, cast_as) ==
    IF cast_as \in {"tuple", "list"}
    THEN /\ result.pc = "returned"
         /\ result.value.type = cast_as
         /\ result.value.items = [ k \in 1..Len(runs) |-> repr(runs[k]) ]
    ELSE result.pc = "raised" /\ result.error = "TypeError"

\* C27, amended: with cast_as the constructor is applied once to the
\* generator of the runs: tuple and list give the tuple and the list of the
\* maximal runs, each run a string as it was yielded, and int, which takes
\* no generator, raises TypeError
C27_ConstructorTakesTheGenerator ==
    CastCalled =>
        WholeCast(returned, MaximalRuns(call.arg.text, call.arg.alphabet), call.arg.cast_as)

\* the docstring's second example with cast_as=tuple: the tuple of the
\* five runs of digits, as strings
C27_Witness ==
    /\ CastCalled
    /\ call.arg.text = "12, 34a 5b6 7" /\ call.arg.alphabet = Digits
    /\ call.arg.cast_as = "tuple"
    /\ returned.pc = "returned"
    /\ returned.value.items = <<"'12'", "'34'", "'5'", "'6'", "'7'">>

=============================================================================
